---- MODULE Spec2Model ----
(***************************************************************************)
(* TradingLab backend: the daily-bar cache service                         *)
(* (services/stock_daily_service.py over repositories/stock_daily_data.py) *)
(* and the provider router (fetcher/manager.py).                           *)
(*                                                                         *)
(* Dates are day numbers. Day 1 is Thursday 2023-12-28, so that the days   *)
(* 1..7 hold two trading days, a week-end, the holiday of 2024-01-01 and   *)
(* two more trading days.                                                  *)
(***************************************************************************)
EXTENDS Integers, Sequences, FiniteSets, TLC

VARIABLES
    repo,       \* table stock_daily_data: a set of rows, one per (symbol, trade_date)
    listing,    \* table stock_basic_info: symbol -> listing_date (NoDate when unknown)
    last,       \* what the latest get_daily_by_code call did and returned
    req,        \* the arguments of the concurrent get_daily_by_code calls
    calls,      \* the concurrent calls: where each one is, and what it holds
    now,        \* datetime.now(), in seconds
    ticks,      \* how many times the clock has advanced
    is_healthy, \* StockDataSource.is_healthy of every provider
    last_check_time,    \* StockDataSource.last_check_time (NoTime when None)
    reg,        \* the MethodRegistry of every provider for the one method
    task,       \* the asyncio tasks that call ServiceMethod.call
    ncalls,     \* how many calls have been dispatched to a provider
    mgr,        \* the DataSourceManager: sources, service methods, registrations
    table,      \* a table behind a BaseRepository, and the last upsert on it
    paged,      \* table backtest_stats and the list_paged call on it
    sched,      \* the TaskScheduler and the APScheduler scheduler it wraps
    job,        \* one run of the update_stock_daily job
    signals,    \* the SignalManager: strategies and strategy_configs
    indic       \* the IndicatorManager: indicators, configs and the cache

dailyVars == <<repo, listing, last>>

concVars == <<req, calls>>

routerVars == <<now, ticks, is_healthy, last_check_time, reg, task, ncalls>>

extraVars == <<mgr, table, paged, sched, job, signals, indic>>

vars == <<repo, listing, last, req, calls,
          now, ticks, is_healthy, last_check_time, reg, task, ncalls, mgr,
          table, paged, sched, job, signals, indic>>

----------------------------------------------------------------------------
(* Bounds and the data the calls range over *)

MaxDay == 7

Days == 1..MaxDay

NoDate == 0

Symbols == {"A", "B"}

\* the symbol the calls ask for
Requested == {"A"}

Max(a, b) == IF a >= b THEN a ELSE b

RangeOf(s) == {s[i] : i \in 1..Len(s)}

RECURSIVE SortedInts(_)
SortedInts(S) ==
    IF S = {} THEN <<>>
    ELSE LET m == CHOOSE x \in S : \A y \in S : x <= y
         IN  <<m>> \o SortedInts(S \ {m})

----------------------------------------------------------------------------
(* Trading calendar *)

\* datetime.weekday(): Monday = 0 ... Sunday = 6; day 1 is a Thursday
Weekday(d) == (d + 2) % 7

\* the public holidays of chinese_calendar among the days: 2024-01-01 (day 5)
PublicHolidays == {5}

\* chinese_calendar.is_holiday: a week-end day or a public holiday
is_holiday(d) == Weekday(d) >= 5 \/ d \in PublicHolidays

\* is_trading_day without its holiday check
is_trading_day_weekdays(d) == IF Weekday(d) >= 5 THEN FALSE ELSE TRUE

is_trading_day(d) ==
    IF Weekday(d) >= 5 THEN FALSE
    ELSE IF is_holiday(d) THEN FALSE
    ELSE TRUE

\* pd.date_range(start, end, freq="B"): the Monday-to-Friday days of [a, b]
BusinessDays(a, b) == {d \in a..b : Weekday(d) < 5}

----------------------------------------------------------------------------
(* Repository of daily bars *)

\* the rows of a set in trade_date order, as the statement returns them
RECURSIVE RowsInOrder(_)
RowsInOrder(S) ==
    IF S = {} THEN <<>>
    ELSE LET m == CHOOSE r \in S : \A q \in S : r.trade_date <= q.trade_date
         IN  <<m>> \o RowsInOrder(S \ {m})

get_daily_data_nosymbol(rows, symbol, start_date, end_date) ==
    RowsInOrder({r \in rows : /\ r.trade_date >= start_date
                              /\ r.trade_date <= end_date})

get_daily_data(rows, symbol, start_date, end_date) ==
    RowsInOrder({r \in rows : /\ r.symbol = symbol
                              /\ r.trade_date >= start_date
                              /\ r.trade_date <= end_date})

\* StockDailyData rows -> frame rows indexed by timestamp
daily_data_to_dataframe(daily_data_list) ==
    [i \in 1..Len(daily_data_list) |->
        [timestamp |-> daily_data_list[i].trade_date,
         symbol    |-> daily_data_list[i].symbol,
         close     |-> daily_data_list[i].close_price]]

\* frame rows -> StockDailyData rows
dataframe_to_daily_data(df) ==
    [i \in 1..Len(df) |->
        [symbol      |-> df[i].symbol,
         trade_date  |-> df[i].timestamp,
         close_price |-> df[i].close]]

\* the methods a StockDailyRepository has
RepoMethods ==
    {"get_by_id", "get_all", "get_count", "exists", "get_first", "list",
     "create", "update", "delete", "delete_by_id", "upsert", "bulk_upsert",
     "get_daily_data", "upsert_stock_dailys_bydf"}

\* the method upsert_stock_dailys_bydf calls on the repository
UpsertMethod == "upsert_many"

\* bulk_upsert with the default conflict columns (the auto-increment primary
\* key, which is left out of VALUES): every object is inserted, and a row
\* that repeats a (symbol, trade_date) breaks uix_symbol_trade_date
bulk_upsert(rows, objs) ==
    LET keys(S) == {<<r.symbol, r.trade_date>> : r \in S}
        clash   == \/ keys(RangeOf(objs)) \cap keys(rows) # {}
                   \/ Cardinality(keys(RangeOf(objs))) # Len(objs)
    IN  IF clash THEN [raised |-> TRUE, rows |-> rows]
        ELSE [raised |-> FALSE, rows |-> rows \cup RangeOf(objs)]

upsert_stock_dailys_bydf(rows, df) ==
    LET datas == dataframe_to_daily_data(df)
    IN  IF UpsertMethod \in RepoMethods
        THEN bulk_upsert(rows, datas)
        ELSE [raised |-> TRUE, rows |-> rows]

----------------------------------------------------------------------------
(* The proxy manager.bind(StockInfoFetcher) returns *)

\* one attribute per public callable of the protocol, and no other
ProxyMethods ==
    {"get_all_stock_basic_info", "get_stock_basic_info", "fetch_stock_daily_data"}

\* the attribute get_daily_by_code asks the proxy for
FetchMethod == "fetch_stock_data"

\* what the upstream holds: one bar per trading day of every symbol
UpstreamFrame(code, fetch_start, fetch_end) ==
    LET ds == SortedInts({d \in fetch_start..fetch_end : is_trading_day(d)})
    IN  [i \in 1..Len(ds) |-> [timestamp |-> ds[i], symbol |-> code, close |-> 2]]

----------------------------------------------------------------------------
(* Pure helpers of stock_daily_service.py *)

adjusted_start_dt_nolisting(start_dt, listing_dt) == start_dt

adjusted_start_dt(start_dt, listing_dt) ==
    IF listing_dt # NoDate THEN Max(start_dt, listing_dt) ELSE start_dt

NoDataBefore_start(start_dt, adjusted, end_dt) == start_dt > end_dt

\* the test of the early return "no data before the listing date"
NoDataBefore(start_dt, adjusted, end_dt) == adjusted > end_dt

_filter_date_range(df, start_dt, end_dt) ==
    SelectSeq(df, LAMBDA r : r.timestamp >= start_dt /\ r.timestamp <= end_dt)

\* the trading days between the first and the last cached date that the
\* cache does not hold, ascending
missing_days_of(cached_df) ==
    LET cached_dates == {cached_df[i].timestamp : i \in 1..Len(cached_df)}
        cache_min    == CHOOSE d \in cached_dates : \A e \in cached_dates : d <= e
        cache_max    == CHOOSE d \in cached_dates : \A e \in cached_dates : d >= e
        req_dates    == BusinessDays(cache_min, cache_max)
        trading_days == {d \in req_dates : is_trading_day(d)}
    IN  SortedInts({d \in trading_days : d \notin cached_dates})

RECURSIVE MergeLoop(_, _, _, _)
MergeLoop(rest, start, end, ranges) ==
    IF rest = <<>> THEN Append(ranges, <<start, end>>)
    ELSE LET date == Head(rest)
         IN  IF date - end = 1
             THEN MergeLoop(Tail(rest), start, date, ranges)
             ELSE MergeLoop(Tail(rest), date, date, Append(ranges, <<start, end>>))

_merge_consecutive_dates(dates_list) ==
    IF dates_list = <<>> THEN <<>>
    ELSE LET sorted_dates == SortedInts(RangeOf(dates_list))
         IN  MergeLoop(Tail(sorted_dates), sorted_dates[1], sorted_dates[1], <<>>)

RECURSIVE Concat(_)
Concat(dfs) == IF dfs = <<>> THEN <<>> ELSE Head(dfs) \o Concat(Tail(dfs))

\* the frames sort_index and duplicated(keep="first") can leave: the rows in
\* timestamp order, one row per timestamp; sort_index is not a stable sort,
\* so any of the rows of a timestamp may be the one that comes first
_merge_data(cached_df, new_dfs) ==
    IF new_dfs = <<>> THEN {cached_df}
    ELSE LET combined == IF cached_df = <<>> THEN Concat(new_dfs)
                         ELSE cached_df \o Concat(new_dfs)
             stamps   == SortedInts({combined[i].timestamp : i \in 1..Len(combined)})
             rowsAt(d) == {r \in RangeOf(combined) : r.timestamp = d}
         IN  {[i \in 1..Len(stamps) |-> pick[stamps[i]]] :
                 pick \in {f \in [RangeOf(stamps) -> RangeOf(combined)] :
                              \A d \in RangeOf(stamps) : f[d] \in rowsAt(d)}}

----------------------------------------------------------------------------
(* StockDailyService.get_daily_by_code *)

\* the record of a call: its arguments, how it ended (outcome: "returned" or
\* "raised"), the path it took, the frame it returned, whether it queried the
\* daily bars, the ranges it decided to fetch, the ranges it did request from
\* the router, and whether it wrote the daily bars
CallRecord(code, start, end, outcome, path, result, read, ranges, fetched, wrote) ==
    [code |-> code, start |-> start, end |-> end, outcome |-> outcome,
     path |-> path, result |-> result, read |-> read, fetch_ranges |-> ranges,
     fetched |-> fetched, wrote |-> wrote]

NoCall == CallRecord("", NoDate, NoDate, "none", "none", <<>>, FALSE, <<>>, <<>>, FALSE)

\* steps 5 to 8: one answer of the router per range (an exception, an empty
\* frame, or the upstream's bars of the range), the merge, the upsert and the
\* slice returned
FetchAndMerge(rows, code, start, end, cached_df, fetch_ranges) ==
    LET n == Len(fetch_ranges)
        frame(i) == UpstreamFrame(code, fetch_ranges[i][1], fetch_ranges[i][2])
        answers == {a \in [1..n -> {"exception", "empty", "data"}] :
                        \A i \in 1..n : a[i] = "data" => frame(i) # <<>>}
        new_dfs(a) ==
            LET ok == SortedInts({i \in 1..n : a[i] = "data"})
            IN  [k \in 1..Len(ok) |-> frame(ok[k])]
        finish(a, combined_df) ==
            LET up  == IF new_dfs(a) # <<>>
                       THEN upsert_stock_dailys_bydf(rows, combined_df)
                       ELSE [raised |-> FALSE, rows |-> rows]
                res == IF combined_df # <<>>
                       THEN _filter_date_range(combined_df, start, end)
                       ELSE <<>>
            IN  IF up.raised
                THEN [rec  |-> CallRecord(code, start, end, "raised", "fetch", <<>>,
                                          TRUE, fetch_ranges, fetch_ranges, FALSE),
                      repo |-> rows]
                ELSE [rec  |-> CallRecord(code, start, end, "returned", "fetch", res,
                                          TRUE, fetch_ranges, fetch_ranges,
                                          new_dfs(a) # <<>>),
                      repo |-> up.rows]
    IN  UNION {{finish(a, c) : c \in _merge_data(cached_df, new_dfs(a))} : a \in answers}

\* lines 45 to 104, from the query of the cached bars on: every way the call
\* can go, as the record of the call and the daily bars it leaves
after_listing(rows, code, start_date, end_date, adjusted) ==
    LET end_dt       == end_date
        cached_df    == daily_data_to_dataframe(
                            get_daily_data(rows, code, adjusted, end_dt))
        missing_days == IF cached_df # <<>> THEN missing_days_of(cached_df)
                        ELSE <<>>
    IN  IF cached_df # <<>> /\ missing_days = <<>>
        THEN {[rec  |-> CallRecord(code, start_date, end_date, "returned", "cache",
                                   _filter_date_range(cached_df, adjusted, end_dt),
                                   TRUE, <<>>, <<>>, FALSE),
               repo |-> rows]}
        ELSE
        LET fetch_ranges == IF missing_days # <<>>
                            THEN _merge_consecutive_dates(missing_days)
                            ELSE << <<start_date, end_date>> >>
        IN  IF FetchMethod \notin ProxyMethods
            THEN \* AttributeError while the fetch tasks are built
                 {[rec  |-> CallRecord(code, start_date, end_date, "raised",
                                       "fetch", <<>>, TRUE, fetch_ranges, <<>>,
                                       FALSE),
                   repo |-> rows]}
            ELSE FetchAndMerge(rows, code, start_date, end_date, cached_df,
                               fetch_ranges)

\* the record of a call that returns at line 43
NoDataRecord(code, start_date, end_date) ==
    CallRecord(code, start_date, end_date, "returned", "nodata", <<>>, FALSE,
               <<>>, <<>>, FALSE)

\* every way one call can go from a state of the two tables when no other
\* call runs
get_daily_by_code(rows, dates, code, start_date, end_date) ==
    LET start_dt   == start_date
        end_dt     == end_date
        listing_dt == dates[code]
        adjusted   == adjusted_start_dt(start_dt, listing_dt)
    IN  IF NoDataBefore(start_dt, adjusted, end_dt)
        THEN {[rec |-> NoDataRecord(code, start_date, end_date), repo |-> rows]}
        ELSE after_listing(rows, code, start_date, end_date, adjusted)

----------------------------------------------------------------------------
(* Registration of sources and methods: fetcher/manager.py *)

\* the source classes that get defined; EastMoneyCopy carries the name of
\* EastMoney
SourceClasses == {"EastMoney", "Legulegu", "EastMoneyCopy"}

\* the name attribute of every class
class_name(c) == IF c = "Legulegu" THEN "legulegu" ELSE "eastmoney"

\* the methods of every class that carry @manager.register_method
class_methods(c) ==
    IF c = "EastMoney" THEN {"fetch_stock_daily_data", "get_all_stock_basic_info"}
    ELSE IF c = "Legulegu" THEN {"get_all_stock_basic_info"}
    ELSE {"fetch_stock_daily_data", "get_stock_basic_info"}

MaxCompletes == 2

\* DataSourceManager.__init__: data_sources in insertion order, a source
\* being [name, inst] with inst the k-th instance <<c, k>> of class c;
\* service_methods maps each known method name to its implementations;
\* registries are the MethodRegistry objects the decorators have made;
\* created counts the instances made of each class
NewManager ==
    [data_sources |-> <<>>, service_methods |-> [m \in {} |-> <<>>],
     registries |-> {}, created |-> [c \in SourceClasses |-> 0],
     completes |-> 0, op |-> <<"none", "">>, raised |-> "none"]

SourceNames(m) == {m.data_sources[i].name : i \in DOMAIN m.data_sources}

\* register_method(...)(func) for method f in the body of class c
register_method(m, c, f) ==
    [m EXCEPT !.service_methods =
                  [g \in DOMAIN @ \cup {f} |-> IF g \in DOMAIN @ THEN @[g] ELSE <<>>],
              !.registries = @ \cup {<<c, f>>},
              !.op = <<"register_method", c>>,
              !.raised = "none"]

register_data_source_again(m, c) ==
    [m EXCEPT !.created[c] = @ + 1,
              !.data_sources = Append(@, [name |-> class_name(c),
                                          inst |-> <<c, m.created[c] + 1>>]),
              !.op = <<"register_data_source", c>>,
              !.raised = "none"]

\* register_data_source(source_cls)
register_data_source(m, c) ==
    IF class_name(c) \in SourceNames(m)
    THEN [m EXCEPT !.op = <<"register_data_source", c>>, !.raised = "ValueError"]
    ELSE [m EXCEPT !.created[c] = @ + 1,
                   !.data_sources = Append(@, [name |-> class_name(c),
                                               inst |-> <<c, m.created[c] + 1>>]),
                   !.op = <<"register_data_source", c>>,
                   !.raised = "none"]

\* the delayed registrations of one source: add_implementation of the
\* instance with the registry of each decorated method of its class
RegisterSource(sm, src) ==
    [g \in DOMAIN sm |->
        IF g \in class_methods(src.inst[1])
        THEN Append(sm[g], <<src.inst, <<src.inst[1], g>>>>)
        ELSE sm[g]]

RECURSIVE RegisterAll(_, _, _)
RegisterAll(sm, sources, i) ==
    IF i > Len(sources) THEN sm
    ELSE RegisterAll(RegisterSource(sm, sources[i]), sources, i + 1)

\* complete_registration()
complete_registration(m) ==
    [m EXCEPT !.service_methods = RegisterAll(@, m.data_sources, 1),
              !.completes = @ + 1,
              !.op = <<"complete_registration", "">>,
              !.raised = "none"]

----------------------------------------------------------------------------
(* Upserts of the generic repository: repositories/base.py *)

\* two kinds of model: "surrogate" has an integer primary key id and a
\* unique key column (as StockDailyData), "natural" has the key column as its
\* primary key (as StockBasicInfo); both have one more column, val
TableKinds == {"surrogate", "natural"}

Dialects == {"sqlite", "postgresql"}

Keys == {"k1", "k2"}

Vals == {1, 2}

\* id of an object that has none, and of the rows of a natural-key table
NoId == 0

MaxBatch == 2

\* the objects handed to upsert: their id is None
Objects == [key : Keys, val : Vals]

Batches == UNION {[1..n -> Objects] : n \in 1..MaxBatch}

table_columns(kind) ==
    IF kind = "surrogate" THEN {"id", "key", "val"} ELSE {"key", "val"}

\* BaseRepository.__init__, line 70
pk_columns(kind) == IF kind = "surrogate" THEN {"id"} ELSE {"key"}

\* _autoinc_pk_columns: the primary key columns whose autoincrement is True
\* or "auto"; "auto" is what a Column has when nothing else is said, so these
\* are all the primary key columns
_autoinc_pk_columns(kind) == pk_columns(kind)

Col(r, c) == IF c = "id" THEN r.id ELSE IF c = "key" THEN r.key ELSE r.val

conflict_cols_of(kind, conflict_columns) ==
    IF conflict_columns # {} THEN conflict_columns ELSE pk_columns(kind)

\* update_cols = update_columns or [c for c in all_cols if c not in conflict_cols]
update_cols_of(kind, conflict_columns) ==
    (table_columns(kind) \ _autoinc_pk_columns(kind))
        \ conflict_cols_of(kind, conflict_columns)

\* INSERT ... VALUES (o) ON CONFLICT (conflict_cols) DO UPDATE SET update_cols
\* for one row of values o, from which the columns of _autoinc_pk_columns
\* were dropped: st is [raised, rows, next_id]
ExecRow(st, kind, o, conflict_cols, update_cols) ==
    IF st.raised THEN st
    ELSE IF "key" \in _autoinc_pk_columns(kind)
    THEN [st EXCEPT !.raised = TRUE]       \* the key of the row is NULL
    ELSE LET hit == {r \in st.rows : "key" \in conflict_cols /\ r.key = o.key}
         IN  IF hit # {}
             THEN [st EXCEPT !.rows =
                      {IF r \in hit /\ "val" \in update_cols
                       THEN [r EXCEPT !.val = o.val] ELSE r : r \in st.rows}]
             ELSE IF \E r \in st.rows : r.key = o.key
             THEN [st EXCEPT !.raised = TRUE]   \* unique constraint on key
             ELSE [st EXCEPT !.rows = @ \cup {[id |-> st.next_id, key |-> o.key,
                                               val |-> o.val]},
                             !.next_id = @ + 1]

RECURSIVE ExecRows(_, _, _, _, _, _)
ExecRows(st, kind, objs, i, conflict_cols, update_cols) ==
    IF i > Len(objs) THEN st
    ELSE ExecRows(ExecRow(st, kind, objs[i], conflict_cols, update_cols),
                  kind, objs, i + 1, conflict_cols, update_cols)

\* one INSERT statement with the rows objs: PostgreSQL refuses a statement
\* that would touch a row twice, SQLite takes the rows one after the other
Execute(tb, objs, conflict_columns) ==
    LET cc == conflict_cols_of(tb.kind, conflict_columns)
        uc == update_cols_of(tb.kind, conflict_columns)
        twice == \E i, j \in DOMAIN objs :
                     i # j /\ "key" \in cc /\ objs[i].key = objs[j].key
        st == ExecRows([raised |-> FALSE, rows |-> tb.rows, next_id |-> tb.next_id],
                       tb.kind, objs, 1, cc, uc)
    IN  IF tb.dialect = "postgresql" /\ twice THEN [st EXCEPT !.raised = TRUE]
        ELSE st

\* the table after the statement, committed unless it raised
After(tb, op, objs, conflict_columns) ==
    LET st == Execute(tb, objs, conflict_columns)
        l  == [op |-> op, objs |-> objs,
               conflict |-> conflict_cols_of(tb.kind, conflict_columns),
               updated |-> update_cols_of(tb.kind, conflict_columns),
               raised |-> st.raised]
    IN  IF st.raised THEN [tb EXCEPT !.last = l]
        ELSE [tb EXCEPT !.rows = st.rows, !.next_id = st.next_id, !.last = l]

\* BaseRepository.upsert(obj, conflict_columns)
BaseRepository_upsert(tb, obj, conflict_columns) ==
    After(tb, "upsert", <<obj>>, conflict_columns)

\* BaseRepository.bulk_upsert(objs, conflict_columns), objs within one batch
BaseRepository_bulk_upsert(tb, objs, conflict_columns) ==
    After(tb, "bulk_upsert", objs, conflict_columns)

NewTable(kind, dialect) ==
    [kind |-> kind, dialect |-> dialect, rows |-> {}, next_id |-> 1,
     last |-> [op |-> "none", objs |-> <<>>, conflict |-> {}, updated |-> {},
               raised |-> FALSE]]

TableAtRest == table = NewTable("surrogate", "sqlite")

Upsert(obj, conflict_columns) ==
    /\ table' = BaseRepository_upsert(table, obj, conflict_columns)
    /\ UNCHANGED <<dailyVars, concVars, routerVars, mgr, paged, sched, job, signals, indic>>

BulkUpsert(objs, conflict_columns) ==
    /\ table' = BaseRepository_bulk_upsert(table, objs, conflict_columns)
    /\ UNCHANGED <<dailyVars, concVars, routerVars, mgr, paged, sched, job, signals, indic>>

----------------------------------------------------------------------------
(* Paging over table backtest_stats: repositories/backtest_stats.py *)

\* ids are uuid4 strings: any order of insertion; strings are sequences of
\* characters
MaxRows == 3

MaxPage == 2

MaxPageSize == 2

RowIds == 1..MaxRows

\* (stock_code, stock_name) of the stocks that get backtested
Stocks == {<< <<"a", "b">>, <<"c">> >>, << <<"B">>, <<"A">> >>}

BacktestRows == {[id |-> i, stock_code |-> s[1], stock_name |-> s[2]] :
                     i \in RowIds, s \in Stocks}

\* keyword: None, "" or a text; "_" is the one-character wildcard of LIKE
None == [is_none |-> TRUE, text |-> <<>>]

Text(s) == [is_none |-> FALSE, text |-> s]

Keywords == {None, Text(<<>>), Text(<<"C">>), Text(<<"_", "b">>)}

\* Python's truth value of a keyword: None and "" are false
Truthy(keyword) == ~keyword.is_none /\ Len(keyword.text) > 0

Lower(ch) == CASE ch = "A" -> "a" [] ch = "B" -> "b" [] ch = "C" -> "c"
               [] OTHER -> ch

\* column ILIKE '%' || kw || '%'
ilike(value, kw) ==
    \E i \in 1..(Len(value) - Len(kw) + 1) :
        \A j \in 1..Len(kw) :
            kw[j] = "_" \/ Lower(kw[j]) = Lower(value[i + j - 1])

\* the WHERE clause both statements add when the keyword is truthy
keyword_filter(o, keyword) ==
    ilike(o.stock_code, keyword.text) \/ ilike(o.stock_name, keyword.text)

RECURSIVE OrderByIdDesc(_)
OrderByIdDesc(S) ==
    IF S = {} THEN <<>>
    ELSE LET m == CHOOSE r \in S : \A q \in S : q.id <= r.id
         IN  <<m>> \o OrderByIdDesc(S \ {m})

\* BaseRepository.list(offset, limit, order_by="id", desc=True, keyword,
\* keyword_fields=[stock_code, stock_name])
BaseRepository_list(rows, offset, limit, keyword) ==
    LET selected == IF Truthy(keyword)
                    THEN {o \in rows : keyword_filter(o, keyword)}
                    ELSE rows
        ordered  == OrderByIdDesc(selected)
        skipped  == IF offset # 0
                    THEN SubSeq(ordered, offset + 1, Len(ordered))
                    ELSE ordered
    IN  IF limit # 0 /\ Len(skipped) > limit
        THEN SubSeq(skipped, 1, limit)
        ELSE skipped

\* select count(*) from backtest_stats [where ...]
count(rows, keyword) ==
    IF Truthy(keyword)
    THEN Cardinality({o \in rows : keyword_filter(o, keyword)})
    ELSE Cardinality(rows)

total_pages_floor(total, page_size) == total \div page_size

total_pages(total, page_size) == (total + page_size - 1) \div page_size

\* the summary of a row that the list shows
BacktestListItem(o) == [id |-> o.id, stock_code |-> o.stock_code,
                        stock_name |-> o.stock_name]

NoResult == [items |-> <<>>, total |-> -1, page |-> 0, page_size |-> 0,
             total_pages |-> -1]

NoArgs == [page |-> 0, page_size |-> 0, keyword |-> None]

NewPaged == [rows |-> {}, pc |-> "idle", args |-> NoArgs, objs |-> <<>>,
             result |-> NoResult]

PagedAtRest == paged = NewPaged

\* another request stores a backtest result under a fresh uuid
InsertBacktest(o) ==
    /\ \A q \in paged.rows : q.id # o.id
    /\ paged' = [paged EXCEPT !.rows = @ \cup {o}]
    /\ UNCHANGED <<dailyVars, concVars, routerVars, mgr, table, sched, job, signals, indic>>

DeleteBacktest(o) ==
    /\ o \in paged.rows
    /\ paged' = [paged EXCEPT !.rows = @ \ {o}]
    /\ UNCHANGED <<dailyVars, concVars, routerVars, mgr, table, sched, job, signals, indic>>

\* list_paged up to its first await: the items query
ListPagedItems(page, page_size, keyword) ==
    /\ paged.pc = "idle"
    /\ paged' = [paged EXCEPT
            !.pc = "count",
            !.args = [page |-> page, page_size |-> page_size,
                      keyword |-> keyword],
            !.objs = BaseRepository_list(paged.rows, (page - 1) * page_size,
                                         page_size, keyword),
            !.result = NoResult]
    /\ UNCHANGED <<dailyVars, concVars, routerVars, mgr, table, sched, job, signals, indic>>

\* the count query and the response
ListPagedCount ==
    /\ paged.pc = "count"
    /\ LET total == count(paged.rows, paged.args.keyword)
       IN  paged' = [paged EXCEPT
               !.pc = "idle",
               !.objs = <<>>,
               !.result = [items |-> [i \in 1..Len(paged.objs) |->
                                          BacktestListItem(paged.objs[i])],
                           total |-> total,
                           page |-> paged.args.page,
                           page_size |-> paged.args.page_size,
                           total_pages |-> total_pages(total, paged.args.page_size)]]
    /\ UNCHANGED <<dailyVars, concVars, routerVars, mgr, table, sched, job, signals, indic>>

----------------------------------------------------------------------------
(* The task scheduler: tasks/scheduler.py over APScheduler *)

MaxLifecycle == 4

MaxAdds == 2

\* job functions: a plain function and a coroutine function
Jobs == {"sync_job", "async_job"}

iscoroutinefunction(j) == j = "async_job"

\* what the job function does when it is invoked
Behaviours == {"returns", "RuntimeError"}

NoAdd == [job |-> "none", run_on_start |-> FALSE]

\* where start() and shutdown() are called from: inside a running event
\* loop, with a current loop that is not running, or with no current loop
\* (asyncio.get_event_loop() raises RuntimeError)
LoopStates == {"running", "idle", "none"}

\* TaskScheduler.__init__: nothing started, nothing queued on the loop
NewScheduler(use_async, loop) ==
    [_is_async |-> use_async, loop |-> loop, _running |-> FALSE,
     state |-> "stopped", callbacks |-> <<>>, raised |-> "none",
     starts |-> 0, shutdowns |-> 0, ncalls |-> 0, op |-> "none",
     jobs |-> [j \in Jobs |-> "none"], executing |-> {}, cancelled |-> {},
     invoked |-> [j \in Jobs |-> 0], nadds |-> 0, added |-> NoAdd]

\* the executors the wrapped scheduler is built with
executors(s) == IF s._is_async THEN {"async", "thread", "default"}
                ELSE {"default"}

\* BaseScheduler.start: refuses a scheduler that is not stopped
scheduler_start(s) ==
    IF s.state = "stopped"
    THEN [s EXCEPT !.state = "running", !.starts = @ + 1, !.raised = "none"]
    ELSE [s EXCEPT !.starts = @ + 1, !.raised = "SchedulerAlreadyRunningError"]

\* BaseScheduler.shutdown(wait=True): refuses a scheduler that is stopped;
\* a thread pool is joined, the asyncio executor cancels what it still runs
scheduler_shutdown(s) ==
    IF s.state = "running"
    THEN [s EXCEPT !.state = "stopped", !.shutdowns = @ + 1, !.raised = "none",
                   !.executing = {},
                   !.cancelled = @ \cup {j \in s.executing : s.jobs[j] = "async"}]
    ELSE [s EXCEPT !.shutdowns = @ + 1, !.raised = "SchedulerNotRunningError"]

\* loop.call_soon_threadsafe(callback)
call_soon_threadsafe(s, callback) ==
    [s EXCEPT !.callbacks = Append(@, callback)]

\* what evaluating self.scheduler.start() does before the loop is handed its
\* result: without a current loop AsyncIOScheduler.start fails on
\* asyncio.get_event_loop()
async_start_now(s) ==
    IF s.loop = "none" THEN [s EXCEPT !.raised = "RuntimeError"]
    ELSE scheduler_start(s)

start(s0) ==
    LET s == [s0 EXCEPT !.raised = "none", !.ncalls = @ + 1, !.op = "start"]
    IN  IF s._running THEN s
        ELSE IF ~s._is_async
        THEN LET r == scheduler_start(s)
             IN  IF r.raised # "none" THEN r ELSE [r EXCEPT !._running = TRUE]
        ELSE IF s.loop = "running"
        THEN [call_soon_threadsafe(s, "start") EXCEPT !._running = TRUE]
        ELSE \* run_until_complete / asyncio.run are handed the None that
             \* scheduler.start() returns
             LET r == async_start_now(s)
             IN  IF r.raised # "none" THEN r ELSE [r EXCEPT !.raised = "TypeError"]

\* AsyncIOScheduler.shutdown is wrapped by run_in_event_loop: the call only
\* queues the real shutdown on the scheduler's loop
async_shutdown_now(s) == call_soon_threadsafe(s, "real_shutdown")

shutdown(s0) ==
    LET s == [s0 EXCEPT !.raised = "none", !.ncalls = @ + 1, !.op = "shutdown"]
    IN  IF ~s._running THEN s
        ELSE IF ~s._is_async
        THEN LET r == scheduler_shutdown(s)
             IN  IF r.raised # "none" THEN r ELSE [r EXCEPT !._running = FALSE]
        ELSE IF s.loop = "running"
        THEN [call_soon_threadsafe(s, "shutdown") EXCEPT !._running = FALSE]
        ELSE [async_shutdown_now(s) EXCEPT !.raised = "TypeError"]

\* the event loop runs its oldest callback; an exception in a callback is
\* logged by the loop and goes to nobody
run_callback(s) ==
    LET cb   == Head(s.callbacks)
        rest == [s EXCEPT !.callbacks = Tail(@)]
        r    == CASE cb = "start" -> scheduler_start(rest)
                  [] cb = "shutdown" -> async_shutdown_now(rest)
                  [] cb = "real_shutdown" -> scheduler_shutdown(rest)
                  [] OTHER -> \* lambda: asyncio.create_task(func(**kwargs))
                       [rest EXCEPT !.invoked["async_job"] = @ + 1]
    IN  [r EXCEPT !.raised = s.raised]

\* the wrapper _wrap_async_task returns, called in-line by add_task
wrapper(s, j, behaviour) ==
    IF s.loop = "idle"
    THEN [s EXCEPT !.invoked[j] = @ + 1,
                   !.raised = IF behaviour = "returns" THEN "none" ELSE behaviour]
    ELSE \* no current loop, or run_until_complete on the running loop
         [s EXCEPT !.raised = "RuntimeError"]

add_task(s0, j, run_on_start, behaviour) ==
    LET auto     == IF iscoroutinefunction(j) THEN "async" ELSE "thread"
        wrapped  == auto = "async" /\ ~s0._is_async
        executor == IF wrapped THEN "thread" ELSE auto
        s == [s0 EXCEPT !.raised = "none", !.nadds = @ + 1, !.op = "add_task",
                        !.added = [job |-> j, run_on_start |-> run_on_start],
                        !.jobs[j] = executor]
        failed == IF behaviour = "returns" THEN "none" ELSE behaviour
    IN  IF ~run_on_start THEN s
        ELSE IF executor = "async" /\ s._is_async
        THEN IF s.loop = "running"
             THEN call_soon_threadsafe(s, "create_task")
             ELSE IF s.loop = "idle" /\ behaviour = "RuntimeError"
             THEN \* except RuntimeError: asyncio.run(func(**kwargs))
                  [s EXCEPT !.invoked[j] = @ + 2, !.raised = failed]
             ELSE [s EXCEPT !.invoked[j] = @ + 1, !.raised = failed]
        ELSE IF wrapped THEN wrapper(s, j, behaviour)
        ELSE [s EXCEPT !.invoked[j] = @ + 1, !.raised = failed]

\* the trigger of job j fires: the job is handed to its executor, or removed
\* when the scheduler has no executor of that name
process_job(s, j) ==
    IF s.jobs[j] \in executors(s)
    THEN [s EXCEPT !.executing = @ \cup {j}, !.cancelled = @ \ {j}]
    ELSE [s EXCEPT !.jobs[j] = "none"]

SchedulerAtRest == sched = NewScheduler(FALSE, "none")

SchedStart ==
    /\ sched.ncalls < MaxLifecycle
    /\ sched' = start(sched)
    /\ UNCHANGED <<dailyVars, concVars, routerVars, mgr, table, paged, job, signals, indic>>

SchedShutdown ==
    /\ sched.ncalls < MaxLifecycle
    /\ sched' = shutdown(sched)
    /\ UNCHANGED <<dailyVars, concVars, routerVars, mgr, table, paged, job, signals, indic>>

RunCallback ==
    /\ sched.loop = "running"
    /\ sched.callbacks # <<>>
    /\ sched' = run_callback(sched)
    /\ UNCHANGED <<dailyVars, concVars, routerVars, mgr, table, paged, job, signals, indic>>

AddTask(j, run_on_start, behaviour) ==
    /\ sched.nadds < MaxAdds
    /\ sched' = add_task(sched, j, run_on_start, behaviour)
    /\ UNCHANGED <<dailyVars, concVars, routerVars, mgr, table, paged, job, signals, indic>>

JobFires(j) ==
    /\ sched.state = "running"
    /\ sched.jobs[j] # "none"
    /\ j \notin sched.executing
    /\ sched' = process_job(sched, j)
    /\ UNCHANGED <<dailyVars, concVars, routerVars, mgr, table, paged, job, signals, indic>>

JobCompletes(j) ==
    /\ j \in sched.executing
    /\ sched' = [sched EXCEPT !.executing = @ \ {j}]
    /\ UNCHANGED <<dailyVars, concVars, routerVars, mgr, table, paged, job, signals, indic>>


----------------------------------------------------------------------------
(* The daily job: tasks/stock_daily_task.py *)

\* how the router answers one fetch_stock_daily_data(stock, today, today):
\* today's bar, an empty frame, or an exception of the call
FetchAnswers == {"data", "empty", "raises"}

\* no run yet: stocks is what get_all returned and is still to do, returned
\* the symbols the upstream gave a bar for, unawaited the coroutines that
\* upsert_stock_dailys_bydf(daily_df) made and nobody awaited
NewJob == [pc |-> "idle", today |-> NoDate, known |-> {}, stocks |-> <<>>,
           returned |-> {}, unawaited |-> {}, outcome |-> "none"]

JobAtRest == job = NewJob

\* lines 16 to 20: the session, the repositories, basic_repo.get_all()
update_stock_daily_begin(j, order) ==
    [j EXCEPT !.pc = "loop", !.stocks = order]

\* lines 21 to 27 for the next stock: the fetch, then the call of the
\* coroutine function upsert_stock_dailys_bydf without await
update_stock_daily_step(j, answer) ==
    LET stock == Head(j.stocks)
    IN  IF answer = "raises"
        THEN [j EXCEPT !.pc = "done", !.outcome = "raised"]
        ELSE [j EXCEPT !.stocks = Tail(@),
                       !.returned = IF answer = "data" THEN @ \cup {stock} ELSE @,
                       !.unawaited = @ \cup {stock}]

\* the end of the loop: the session commits and closes
update_stock_daily_end(j) == [j EXCEPT !.pc = "done", !.outcome = "returned"]

JobBegins(order) ==
    /\ job.pc = "idle"
    /\ RangeOf(order) = job.known
    /\ Len(order) = Cardinality(job.known)
    /\ job' = update_stock_daily_begin(job, order)
    /\ UNCHANGED <<dailyVars, concVars, routerVars, mgr, table, paged, sched,
                   signals, indic>>

JobFetches(answer) ==
    /\ job.pc = "loop"
    /\ job.stocks # <<>>
    /\ job' = update_stock_daily_step(job, answer)
    /\ UNCHANGED <<dailyVars, concVars, routerVars, mgr, table, paged, sched,
                   signals, indic>>

JobEnds ==
    /\ job.pc = "loop"
    /\ job.stocks = <<>>
    /\ job' = update_stock_daily_end(job)
    /\ UNCHANGED <<dailyVars, concVars, routerVars, mgr, table, paged, sched,
                   signals, indic>>

----------------------------------------------------------------------------
(* The signal manager: strategy/manager.py *)

\* the names the @register_strategy decorators have registered, among the
\* names that get asked for
StrategyRegistry == {"RSI", "MACD"}

StrategyNames == StrategyRegistry \cup {"UnknownStrategy"}

\* StrategyConfig(name, enabled, weight, parameters); the parameters pass the
\* strategy's validation or not
StrategyConfigs == [name : StrategyNames, enabled : BOOLEAN, weight : {1},
                    parameters : {"valid", "invalid"}]

NoStrategy == [name |-> "none"]

\* SignalManager(SignalManagerConfig()): both dictionaries empty; last is the
\* latest call and what it returned or raised
NewSignalManager ==
    [strategies |-> [n \in {} |-> NoStrategy],
     strategy_configs |-> [n \in {} |-> NoStrategy],
     last |-> [op |-> "none", name |-> "none", result |-> "none"]]

Called(sm, op, name, result) ==
    [sm EXCEPT !.last = [op |-> op, name |-> name, result |-> result]]

\* d[k] = v of a dictionary
Put(d, k, v) == [n \in DOMAIN d \cup {k} |-> IF n = k THEN v ELSE d[n]]

\* del d[k]
Del(d, k) == [n \in DOMAIN d \ {k} |-> d[n]]

add_strategy(sm, strategy_config) ==
    LET name == strategy_config.name
    IN  IF name \notin StrategyRegistry
        THEN Called(sm, "add_strategy", name, "StrategyNotFoundError")
        ELSE IF strategy_config.parameters = "invalid"
        THEN Called(sm, "add_strategy", name, "ConfigurationError")
        ELSE Called([sm EXCEPT
                        !.strategies = Put(@, name, [name |-> name]),
                        !.strategy_configs = Put(@, name, strategy_config)],
                    "add_strategy", name, "None")

remove_strategy(sm, name) ==
    IF name \in DOMAIN sm.strategies
    THEN Called([sm EXCEPT !.strategies = Del(@, name),
                           !.strategy_configs = Del(@, name)],
                "remove_strategy", name, "True")
    ELSE Called(sm, "remove_strategy", name, "False")

enable_strategy(sm, name, enabled) ==
    IF name \in DOMAIN sm.strategy_configs
    THEN Called([sm EXCEPT !.strategy_configs[name].enabled = enabled],
                "enable_strategy", name, "True")
    ELSE Called(sm, "enable_strategy", name, "False")

set_strategy_weight(sm, name, weight) ==
    IF name \in DOMAIN sm.strategy_configs
    THEN LET capped  == IF weight < 10 THEN weight ELSE 10
             floored == IF capped > 0 THEN capped ELSE 0
         IN  Called([sm EXCEPT !.strategy_configs[name].weight = floored],
                    "set_strategy_weight", name, "True")
    ELSE Called(sm, "set_strategy_weight", name, "False")

SignalsAtRest == signals = NewSignalManager

AddStrategy(strategy_config) ==
    /\ signals' = add_strategy(signals, strategy_config)
    /\ UNCHANGED <<dailyVars, concVars, routerVars, mgr, table, paged, sched,
                   job, indic>>

RemoveStrategy(name) ==
    /\ signals' = remove_strategy(signals, name)
    /\ UNCHANGED <<dailyVars, concVars, routerVars, mgr, table, paged, sched,
                   job, indic>>

EnableStrategy(name, enabled) ==
    /\ signals' = enable_strategy(signals, name, enabled)
    /\ UNCHANGED <<dailyVars, concVars, routerVars, mgr, table, paged, sched,
                   job, indic>>

SetStrategyWeight(name, weight) ==
    /\ signals' = set_strategy_weight(signals, name, weight)
    /\ UNCHANGED <<dailyVars, concVars, routerVars, mgr, table, paged, sched,
                   job, indic>>

\* ---------------------------------------------------------------------
\* IndicatorManager: indicator results cached per name and frame index
\* ---------------------------------------------------------------------

MaxResults == 3

\* the indicators registered by register_indicator that get asked for
IndicatorRegistry == {"MA", "MACD"}

IndicatorNames == IndicatorRegistry \cup {"X"}

\* the characters of a name
Letters ==
    [n \in IndicatorNames |->
        CASE n = "MA" -> <<"M", "A">>
          [] n = "MACD" -> <<"M", "A", "C", "D">>
          [] OTHER -> <<"X">>]

\* configuration dictionaries: two that validate and one that does not
IndicatorConfigs == {"c1", "c2", "invalid"}

\* data frames: index is hash(tuple(df.index)) in digits, data the prices,
\* valid whether the frame has the OHLCV columns
Frames ==
    {[index |-> "1", data |-> 1, valid |-> TRUE],
     [index |-> "1", data |-> 2, valid |-> TRUE],
     [index |-> "2", data |-> 1, valid |-> TRUE],
     [index |-> "2", data |-> 2, valid |-> FALSE]}

NoFrame == [index |-> "0", data |-> 0, valid |-> FALSE]

\* IndicatorResult(name, values, metadata = config.to_dict()); id tells the
\* objects apart
IndicatorResult(id, name, df, config) ==
    [id |-> id, name |-> name, data |-> df.data, config |-> config]

NoIndicatorResult == [id |-> 0, name |-> "none", data |-> 0, config |-> "none"]

\* IndicatorManager(config_manager) over a ConfigManager holding configs;
\* results counts the IndicatorResult objects made so far
NewIndicatorManager(configs) ==
    [indicator_configs |-> configs,
     _cached_results |-> [k \in {} |-> NoIndicatorResult],
     results |-> 0,
     last |-> [op |-> "none", name |-> "none", df |-> NoFrame,
               outcome |-> "none", result |-> NoIndicatorResult]]

IndicatorCalled(im, op, name, df, outcome, result) ==
    [im EXCEPT !.last = [op |-> op, name |-> name, df |-> df,
                         outcome |-> outcome, result |-> result]]

\* f"{name}_{hash(tuple(df.index))}"
cache_key(name, df) == Letters[name] \o <<"_", df.index>>

\* k.startswith(name)
startswith(k, name) ==
    /\ Len(Letters[name]) <= Len(k)
    /\ SubSeq(k, 1, Len(Letters[name])) = Letters[name]

calculate_indicator(im, name, df) ==
    LET key == cache_key(name, df)
    IN  IF key \in DOMAIN im._cached_results
        THEN IndicatorCalled(im, "calculate_indicator", name, df, "returned",
                             im._cached_results[key])
        ELSE IF name \notin IndicatorRegistry
        THEN IndicatorCalled(im, "calculate_indicator", name, df,
                             "IndicatorNotFoundError", NoIndicatorResult)
        ELSE IF ~df.valid
        THEN IndicatorCalled(im, "calculate_indicator", name, df,
                             "ValueError", NoIndicatorResult)
        ELSE LET result == IndicatorResult(im.results + 1, name, df,
                                           im.indicator_configs[name])
             IN  IndicatorCalled(
                     [im EXCEPT !._cached_results = Put(@, key, result),
                                !.results = @ + 1],
                     "calculate_indicator", name, df, "returned", result)

update_config_keep(im, name, config) ==
    IF name \notin DOMAIN im.indicator_configs \/ config = "invalid"
    THEN IndicatorCalled(im, "update_config", name, NoFrame,
                         "ConfigurationError", NoIndicatorResult)
    ELSE IndicatorCalled(
             [im EXCEPT !.indicator_configs[name] = config],
             "update_config", name, NoFrame, "None", NoIndicatorResult)

update_config(im, name, config) ==
    IF name \notin DOMAIN im.indicator_configs \/ config = "invalid"
    THEN IndicatorCalled(im, "update_config", name, NoFrame,
                         "ConfigurationError", NoIndicatorResult)
    ELSE LET keys_to_remove == {k \in DOMAIN im._cached_results :
                                    startswith(k, name)}
         IN  IndicatorCalled(
                 [im EXCEPT !.indicator_configs[name] = config,
                            !._cached_results =
                                [k \in DOMAIN @ \ keys_to_remove |-> @[k]]],
                 "update_config", name, NoFrame, "None", NoIndicatorResult)

clear_cache(im) ==
    IndicatorCalled([im EXCEPT !._cached_results = [k \in {} |-> NoIndicatorResult]],
                    "clear_cache", "none", NoFrame, "None", NoIndicatorResult)

IndicatorsAtRest ==
    indic = NewIndicatorManager([n \in IndicatorRegistry |-> "c1"])

\* a call that has to compute makes a new result object
CalculateIndicator(name, df) ==
    /\ calculate_indicator(indic, name, df).results <= MaxResults
    /\ indic' = calculate_indicator(indic, name, df)
    /\ UNCHANGED <<dailyVars, concVars, routerVars, mgr, table, paged, sched,
                   job, signals>>

UpdateConfig(name, config) ==
    /\ indic' = update_config(indic, name, config)
    /\ UNCHANGED <<dailyVars, concVars, routerVars, mgr, table, paged, sched,
                   job, signals>>

ClearCache ==
    /\ indic' = clear_cache(indic)
    /\ UNCHANGED <<dailyVars, concVars, routerVars, mgr, table, paged, sched,
                   job, signals>>


OthersAtRest == JobAtRest /\ SignalsAtRest /\ IndicatorsAtRest

RegistryAtRest == mgr = NewManager

ExtrasAtRest ==
    /\ RegistryAtRest
    /\ TableAtRest
    /\ PagedAtRest
    /\ SchedulerAtRest
    /\ OthersAtRest

ServiceAtRest ==
    /\ repo = {}
    /\ listing = [s \in Symbols |-> NoDate]
    /\ last = NoCall
    /\ req = NoCall
    /\ calls = <<>>

\* the decorator of method f runs in the body of class c, before the class
\* is handed to register_data_source
RegisterMethod(c, f) ==
    /\ f \in class_methods(c)
    /\ <<c, f>> \notin mgr.registries
    /\ mgr.created[c] = 0
    /\ mgr' = register_method(mgr, c, f)
    /\ UNCHANGED <<dailyVars, concVars, routerVars, table, paged, sched, job, signals, indic>>

\* @manager.register_data_source on class c, once its body has run
RegisterDataSource(c) ==
    /\ \A f \in class_methods(c) : <<c, f>> \in mgr.registries
    /\ mgr' = register_data_source(mgr, c)
    /\ UNCHANGED <<dailyVars, concVars, routerVars, table, paged, sched, job, signals, indic>>

CompleteRegistration ==
    /\ mgr.completes < MaxCompletes
    /\ mgr' = complete_registration(mgr)
    /\ UNCHANGED <<dailyVars, concVars, routerVars, table, paged, sched, job, signals, indic>>

----------------------------------------------------------------------------
(* The provider router: fetcher/manager.py *)

\* the providers that implement the method, in registration order
Implementations == <<"P1", "P2">>

Sources == RangeOf(Implementations)

NoSource == "none"

NoTime == -1

\* DataSourceManager.health_check_interval, in seconds
health_check_interval == 300

\* MethodRegistry.weight, in tenths
WeightTenths == [p \in Sources |-> 10]

\* max_concurrent of the registrations: P1 runs one call at a time, P2 has
\* no semaphore (0 stands for None)
max_concurrent == [p \in Sources |-> IF p = "P1" THEN 1 ELSE 0]

\* the limiter and semaphore a call can pass of its own
Overrides == {"limiter", "semaphore"}

MaxCalls == 2

MaxTicks == 1

MaxRetries == 2

MaxClock == 3

Tasks == {1, 2}

RECURSIVE Pow5(_)
Pow5(k) == IF k = 0 THEN 1 ELSE 5 * Pow5(k - 1)

\* MethodRegistry.__init__; success_rate is the fraction sr_num / 5^sr_exp
\* and qps_cfg the max_requests_per_minute of its limiter (0 stands for None)
NewRegistry(p, qps) ==
    [weight |-> WeightTenths[p], qps_cfg |-> qps, active_tasks |-> {}, call_count |-> 0,
     error_count |-> 0, last_call_time |-> NoTime, sr_num |-> 1, sr_exp |-> 0,
     level |-> 0, holders |-> {}]

Ema_nodecay(r, o) ==
    [r EXCEPT !.sr_num = 5 * r.sr_num + o * Pow5(r.sr_exp), !.sr_exp = r.sr_exp + 1]

\* success_rate = (1 - 0.2) * success_rate + 0.2 * o, as a fraction in lowest
\* terms over a power of 5
Ema(r, o) ==
    LET num == 4 * r.sr_num + o * Pow5(r.sr_exp)
        ex  == r.sr_exp + 1
    IN  IF num % 5 = 0 THEN [r EXCEPT !.sr_num = num \div 5]
        ELSE [r EXCEPT !.sr_num = num, !.sr_exp = ex]

record_success(r, t) ==
    Ema([r EXCEPT !.call_count = @ + 1, !.last_call_time = t], 1)

record_error_uncounted(r, t) ==
    Ema([r EXCEPT !.call_count = @ + 1, !.last_call_time = t], 0)

record_error(r, t) ==
    Ema([r EXCEPT !.call_count = @ + 1, !.error_count = @ + 1,
                  !.last_call_time = t], 0)

available_all(healthy) == Implementations

\* choose_implementation, line 104: the implementations whose source is healthy
available(healthy) == SelectSeq(Implementations, LAMBDA p : healthy[p])

\* the scores of the candidates, over their common denominator
Scores(av, regs) ==
    LET den(p) == Pow5(regs[p].sr_exp) * (1 + Cardinality(regs[p].active_tasks))
        RECURSIVE prod(_)
        prod(i) == IF i = 0 THEN 1 ELSE den(av[i]) * prod(i - 1)
        D == prod(Len(av))
    IN  [i \in 1..Len(av) |-> regs[av[i]].weight * regs[av[i]].sr_num * (D \div den(av[i]))]

RECURSIVE SumTo(_, _)
SumTo(sc, i) == IF i = 0 THEN 0 ELSE sc[i] + SumTo(sc, i - 1)

choose_implementation_first(healthy, regs) ==
    LET av == available(healthy)
    IN  IF av = <<>> THEN {NoSource}
        ELSE LET sc    == Scores(av, regs)
                 total == SumTo(sc, Len(av))
                 pick(r) == av[CHOOSE i \in 1..Len(av) :
                                  /\ SumTo(sc, i) >= r
                                  /\ \A j \in 1..(i - 1) : SumTo(sc, j) < r]
             IN  IF total <= 0 THEN {av[1]}
                 ELSE {pick(r) : r \in {x \in {0} \cup {SumTo(sc, i) : i \in 1..Len(av)} :
                                            0 <= x /\ x <= total}}

\* every implementation choose_implementation can return (NoSource for None):
\* r = random.uniform(0, total) is any number with 0 <= r <= total, and the
\* first candidate whose running sum reaches r is picked; the running sums
\* in that range and 0 stand for every r
choose_implementation(healthy, regs) ==
    LET av == available(healthy)
    IN  IF av = <<>> THEN {NoSource}
        ELSE LET sc    == Scores(av, regs)
                 total == SumTo(sc, Len(av))
                 pick(r) == av[CHOOSE i \in 1..Len(av) :
                                  /\ SumTo(sc, i) >= r
                                  /\ \A j \in 1..(i - 1) : SumTo(sc, j) < r]
             IN  IF total <= 0 THEN RangeOf(av)
                 ELSE {pick(r) : r \in {x \in {0} \cup {SumTo(sc, i) : i \in 1..Len(av)} :
                                            0 <= x /\ x <= total}}

needs_probe_first_only(p, healthy, checked, t) ==
    IF checked[p] = NoTime THEN TRUE ELSE ~healthy[p]

\* DataSourceManager.is_healthy, lines 330-335: is a health check due
needs_probe(p, healthy, checked, t) ==
    \/ checked[p] = NoTime
    \/ t - checked[p] > health_check_interval
    \/ ~healthy[p]

\* the timeouts a call can pass, in seconds; 0 stands for None, and
\* "if timeout" (lines 182, 189) takes a timeout of 0 for none as well
Timeouts == {0, 2}

\* a task that is in no call: outcome is how its latest call ended
Idle(outcome, src) ==
    [pc |-> "idle", src |-> src, attempt |-> 0, retries |-> 0, own |-> {},
     outcome |-> outcome, timeout |-> 0, deadline |-> NoTime, invoked |-> 0]

\* a call of ServiceMethod.call with its arguments, source p chosen; deadline
\* is when the wait_for of the current attempt expires and invoked how often
\* the provider method has been called
NewCall(p, retries, own, timeout) ==
    [pc |-> "probe", src |-> p, attempt |-> 0, retries |-> retries, own |-> own,
     outcome |-> "none", timeout |-> timeout, deadline |-> NoTime, invoked |-> 0]

\* _limiter = limiter or registry.limiter: does the call of record tk go
\* through the limiter of the registration
uses_limiter(regs, tk) ==
    "limiter" \notin tk.own /\ regs[tk.src].qps_cfg > 0

uses_semaphore_always(tk) == max_concurrent[tk.src] > 0

\* _semaphore = semaphore or registry.semaphore
uses_semaphore(tk) ==
    "semaphore" \notin tk.own /\ max_concurrent[tk.src] > 0

EnterSemaphore_unbounded(regs, t, tk) ==
    [reg |-> [regs EXCEPT ![tk.src].holders =
                 IF uses_semaphore(tk) THEN @ \cup {t} ELSE @],
     task |-> [tk EXCEPT !.pc = "running", !.invoked = @ + 1]]

\* _invoke past the limiter: the semaphore of the registration is taken when
\* the call uses it and a permit is free, else the call waits for it; a
\* semaphore of the caller's own is taken at once
EnterSemaphore(regs, t, tk) ==
    LET p == tk.src
    IN  IF uses_semaphore(tk) /\ Cardinality(regs[p].holders) >= max_concurrent[p]
        THEN [reg |-> regs, task |-> [tk EXCEPT !.pc = "wait_sem"]]
        ELSE [reg |-> [regs EXCEPT ![p].holders =
                          IF uses_semaphore(tk) THEN @ \cup {t} ELSE @],
              task |-> [tk EXCEPT !.pc = "running", !.invoked = @ + 1]]

deadline_aggregate(call, at) ==
    IF call.timeout > 0
    THEN (IF call.deadline = NoTime THEN at + call.timeout ELSE call.deadline)
    ELSE NoTime

\* asyncio.wait_for(_invoke(), timeout=timeout) if timeout else _invoke()
\* (lines 181-185): when the attempt started at time at expires
deadline(call, at) ==
    IF call.timeout > 0 THEN at + call.timeout ELSE NoTime

StartAttempt_semaphore_first(regs, t, at, call, attempt) ==
    LET p  == call.src
        tk == [call EXCEPT !.pc = "running", !.attempt = attempt,
                           !.deadline = deadline(call, at)]
        r1 == [regs EXCEPT ![p].active_tasks = @ \cup {t}]
        s  == EnterSemaphore(r1, t, tk)
    IN  IF s.task.pc = "running" /\ uses_limiter(regs, tk)
        THEN (IF regs[p].level >= regs[p].qps_cfg
              THEN [reg |-> s.reg,
                    task |-> [tk EXCEPT !.pc = "wait_limiter"]]
              ELSE [reg |-> [s.reg EXCEPT ![p].level = @ + 1], task |-> s.task])
        ELSE s

\* the registry and the task once the call starts an attempt at time at: the
\* task is among the active ones, and _invoke takes the limiter, then the
\* semaphore
StartAttempt(regs, t, at, call, attempt) ==
    LET p  == call.src
        tk == [call EXCEPT !.pc = "running", !.attempt = attempt,
                           !.deadline = deadline(call, at)]
        r1 == [regs EXCEPT ![p].active_tasks = @ \cup {t}]
    IN  IF uses_limiter(regs, tk) /\ regs[p].level >= regs[p].qps_cfg
        THEN [reg |-> r1, task |-> [tk EXCEPT !.pc = "wait_limiter"]]
        ELSE EnterSemaphore(
                 [r1 EXCEPT ![p].level = IF uses_limiter(regs, tk) THEN @ + 1 ELSE @],
                 t, tk)

leave_holding(r, t) == [r EXCEPT !.active_tasks = @ \ {t}]

\* the call leaves the registration: "async with _semaphore" gives the permit
\* back and the finally clause (lines 201-202) discards the task
leave(r, t) == [r EXCEPT !.holders = @ \ {t}, !.active_tasks = @ \ {t}]

cancelled_as_failure(r, t, at) == record_error(leave(r, t), at)

\* the registration after a cancelled call: CancelledError passes the
\* "except Exception" clause (line 196), so nothing is recorded
cancelled(r, t, at) == leave(r, t)

\* the state of the router before any call
RouterAtRest ==
    /\ now = 0
    /\ ticks = 0
    /\ is_healthy = [p \in Sources |-> TRUE]
    /\ last_check_time = [p \in Sources |-> NoTime]
    /\ reg = [p \in Sources |-> NewRegistry(p, 0)]
    /\ task = [t \in Tasks |-> Idle("none", NoSource)]
    /\ ncalls = 0

InitRouter ==
    /\ repo = {}
    /\ listing = [s \in Symbols |-> NoDate]
    /\ last = NoCall
    /\ req = NoCall
    /\ calls = <<>>
    /\ RouterAtRest
    /\ ExtrasAtRest

no_implementation_recorded(regs, t) ==
    [p \in Sources |-> record_error(regs[p], t)]

\* ServiceMethod.call, lines 141-142: the registrations when no implementation
\* is available; the error is raised and nothing is recorded
no_implementation(regs, t) == regs

\* ServiceMethod.call up to its first await: the selection, and either the
\* health check of the chosen source or the first attempt
Call(t, retries, own, timeout) ==
    /\ task[t].pc = "idle"
    /\ \E p \in choose_implementation(is_healthy, reg) :
           IF p = NoSource
           THEN /\ task' = [task EXCEPT ![t] = Idle("unavailable", NoSource)]
                /\ reg' = no_implementation(reg, now)
                /\ ncalls' = ncalls
           ELSE /\ ncalls < MaxCalls
                /\ ncalls' = ncalls + 1
                /\ IF needs_probe(p, is_healthy, last_check_time, now)
                   THEN /\ task' = [task EXCEPT ![t] =
                                        NewCall(p, retries, own, timeout)]
                        /\ reg' = reg
                   ELSE LET s == StartAttempt(reg, t, now,
                                              NewCall(p, retries, own, timeout), 1)
                        IN  task' = [task EXCEPT ![t] = s.task] /\ reg' = s.reg
    /\ UNCHANGED <<now, ticks, is_healthy, last_check_time, dailyVars, concVars, extraVars>>

\* the health check of the chosen source answers (or raises)
ProbeDone(t, answer) ==
    /\ task[t].pc = "probe"
    /\ LET p == task[t].src
       IN  /\ is_healthy' = [is_healthy EXCEPT ![p] = (answer = "true")]
           /\ last_check_time' = IF answer = "raise" THEN last_check_time
                                 ELSE [last_check_time EXCEPT ![p] = now]
           /\ IF answer = "true"
              THEN LET s == StartAttempt(reg, t, now, task[t], 1)
                   IN  task' = [task EXCEPT ![t] = s.task] /\ reg' = s.reg
              ELSE /\ reg' = [reg EXCEPT ![p] = record_error(@, now)]
                   /\ task' = [task EXCEPT ![t] = Idle("unavailable", p)]
    /\ UNCHANGED <<now, ticks, ncalls, dailyVars, concVars, extraVars>>

\* the limiter has capacity for a waiting call
AcquireLimiter(t) ==
    /\ task[t].pc = "wait_limiter"
    /\ LET p == task[t].src
       IN  /\ reg[p].level < reg[p].qps_cfg
           /\ LET s == EnterSemaphore([reg EXCEPT ![p].level = @ + 1], t, task[t])
              IN  task' = [task EXCEPT ![t] = s.task] /\ reg' = s.reg
    /\ UNCHANGED <<now, ticks, is_healthy, last_check_time, ncalls, dailyVars, concVars, extraVars>>

\* the limiter of a registration leaks with time
LimiterLeaks(p) ==
    /\ reg[p].level > 0
    /\ reg' = [reg EXCEPT ![p].level = @ - 1]
    /\ UNCHANGED <<now, ticks, is_healthy, last_check_time, task, ncalls, dailyVars, concVars, extraVars>>

\* a permit of the semaphore is free for a waiting call
AcquireSemaphore(t) ==
    /\ task[t].pc = "wait_sem"
    /\ LET p == task[t].src
       IN  /\ Cardinality(reg[p].holders) < max_concurrent[p]
           /\ reg' = [reg EXCEPT ![p].holders = @ \cup {t}]
    /\ task' = [task EXCEPT ![t].pc = "running", ![t].invoked = @ + 1]
    /\ UNCHANGED <<now, ticks, is_healthy, last_check_time, ncalls, dailyVars, concVars, extraVars>>

\* the provider method returns
AttemptSucceeds(t) ==
    /\ task[t].pc = "running"
    /\ LET p == task[t].src
       IN  reg' = [reg EXCEPT ![p] =
                      record_success(leave(@, t), now)]
    /\ task' = [task EXCEPT ![t] = Idle("success", task[t].src)]
    /\ UNCHANGED <<now, ticks, is_healthy, last_check_time, ncalls, dailyVars, concVars, extraVars>>

stop_after_first(tk) == TRUE

\* stop_after_attempt(retries) of the retry loop, and the single attempt made
\* when retries is not positive (lines 174-193): was this the last attempt
stop(tk) == tk.retries <= 0 \/ tk.attempt >= tk.retries

mark_failed_keeps(healthy, p) == healthy

\* source.is_healthy = False (line 198)
mark_failed(healthy, p) == [healthy EXCEPT ![p] = FALSE]

\* an attempt of the call of task t ends with an exception: another attempt
\* follows while the retry loop allows one, else the except clause (lines
\* 196-200) records the error and marks the source
AttemptRaises(t) ==
    /\ LET p == task[t].src
       IN  IF ~stop(task[t])
           THEN /\ reg' = [reg EXCEPT ![p].holders = @ \ {t}]
                /\ task' = [task EXCEPT ![t].pc = "backoff"]
                /\ UNCHANGED <<is_healthy, last_check_time>>
           ELSE /\ reg' = [reg EXCEPT ![p] =
                              record_error(leave(@, t), now)]
                /\ is_healthy' = mark_failed(is_healthy, p)
                /\ last_check_time' = [last_check_time EXCEPT ![p] = now]
                /\ task' = [task EXCEPT ![t] = Idle("failed", p)]
    /\ UNCHANGED <<now, ticks, ncalls, dailyVars, concVars, extraVars>>

\* the provider method raises
AttemptFails(t) ==
    /\ task[t].pc = "running"
    /\ AttemptRaises(t)

\* the wait_for of the attempt expires, while _invoke waits for the limiter
\* or the semaphore or while the provider method runs: the attempt is
\* cancelled there and TimeoutError is raised in its place
AttemptTimesOut(t) ==
    /\ task[t].pc \in {"wait_limiter", "wait_sem", "running"}
    /\ task[t].deadline # NoTime
    /\ now >= task[t].deadline
    /\ AttemptRaises(t)

BackoffEnds_rechoose(t) ==
    /\ task[t].pc = "backoff"
    /\ \E p \in choose_implementation(is_healthy, reg) \ {NoSource} :
           LET s == StartAttempt([reg EXCEPT ![task[t].src].active_tasks = @ \ {t}],
                                 t, now, [task[t] EXCEPT !.src = p],
                                 task[t].attempt + 1)
           IN  task' = [task EXCEPT ![t] = s.task] /\ reg' = s.reg
    /\ UNCHANGED <<now, ticks, is_healthy, last_check_time, ncalls, dailyVars, concVars, extraVars>>

\* the wait between two attempts ends
BackoffEnds(t) ==
    /\ task[t].pc = "backoff"
    /\ LET s == StartAttempt(reg, t, now, task[t], task[t].attempt + 1)
       IN  task' = [task EXCEPT ![t] = s.task] /\ reg' = s.reg
    /\ UNCHANGED <<now, ticks, is_healthy, last_check_time, ncalls, dailyVars, concVars, extraVars>>

Cancel_retried(t) ==
    /\ task[t].pc \in {"wait_limiter", "wait_sem", "running"}
    /\ AttemptRaises(t)

\* the task is cancelled at an await: CancelledError is no Exception, so only
\* the context managers and the finally clause run
Cancel(t) ==
    /\ task[t].pc \in {"probe", "wait_limiter", "wait_sem", "running", "backoff"}
    /\ LET p == task[t].src
       IN  reg' = [reg EXCEPT ![p] = cancelled(@, t, now)]
    /\ task' = [task EXCEPT ![t] = Idle("cancelled", task[t].src)]
    /\ UNCHANGED <<now, ticks, is_healthy, last_check_time, ncalls, dailyVars, concVars, extraVars>>

\* no wait_for of an attempt in flight expires before time at
NoneExpiresBefore(at) ==
    \A t \in Tasks :
        (task[t].pc \in {"wait_limiter", "wait_sem", "running"}
            /\ task[t].deadline # NoTime) => at <= task[t].deadline

\* a second passes
Elapse ==
    /\ now < MaxClock
    /\ NoneExpiresBefore(now + 1)
    /\ now' = now + 1
    /\ UNCHANGED <<ticks, is_healthy, last_check_time, reg, task, ncalls, dailyVars, concVars, extraVars>>

\* time passes: a second, or more than the health check interval
Tick(dt) ==
    /\ ticks < MaxTicks
    /\ NoneExpiresBefore(now + dt)
    /\ ticks' = ticks + 1
    /\ now' = now + dt
    /\ UNCHANGED <<is_healthy, last_check_time, reg, task, ncalls, dailyVars, concVars, extraVars>>

NextRouter ==
    \/ \E t \in Tasks, retries \in 0..MaxRetries : Call(t, retries, {}, 0)
    \/ \E t \in Tasks, answer \in {"true", "false", "raise"} : ProbeDone(t, answer)
    \/ \E t \in Tasks : AcquireSemaphore(t)
    \/ \E t \in Tasks : AttemptSucceeds(t)
    \/ \E t \in Tasks : AttemptFails(t)
    \/ \E t \in Tasks : BackoffEnds(t)
    \/ \E t \in Tasks : Cancel(t)
    \/ \E dt \in {1, health_check_interval + 1} : Tick(dt)

SpecRouter == InitRouter /\ [][NextRouter]_vars

\* The router with calls that pass a timeout, second by second, once both
\* sources have been checked
InitRetry ==
    /\ repo = {}
    /\ listing = [s \in Symbols |-> NoDate]
    /\ last = NoCall
    /\ req = NoCall
    /\ calls = <<>>
    /\ now = 0
    /\ ticks = 0
    /\ is_healthy = [p \in Sources |-> TRUE]
    /\ last_check_time = [p \in Sources |-> 0]
    /\ reg = [p \in Sources |-> NewRegistry(p, 0)]
    /\ task = [t \in Tasks |-> Idle("none", NoSource)]
    /\ ncalls = 0
    /\ ExtrasAtRest

NextRetry ==
    \/ \E t \in Tasks, retries \in 0..MaxRetries, timeout \in Timeouts :
           Call(t, retries, {}, timeout)
    \/ \E t \in Tasks : AcquireSemaphore(t)
    \/ \E t \in Tasks : AttemptSucceeds(t)
    \/ \E t \in Tasks : AttemptFails(t)
    \/ \E t \in Tasks : AttemptTimesOut(t)
    \/ \E t \in Tasks : BackoffEnds(t)
    \/ \E t \in Tasks : Cancel(t)
    \/ Elapse

SpecRetry == InitRetry /\ [][NextRetry]_vars

\* the weights register_method and configure_method can give a registration,
\* in tenths: neither checks the number
Weights == {-10, 0, 10}

\* the router with configured weights: the registrations carry any of the
\* weights, every source has been checked at time 0 and some have failed it
InitChoose ==
    /\ repo = {}
    /\ listing = [s \in Symbols |-> NoDate]
    /\ last = NoCall
    /\ req = NoCall
    /\ calls = <<>>
    /\ now = 0
    /\ ticks = 0
    /\ is_healthy \in [Sources -> BOOLEAN]
    /\ last_check_time = [p \in Sources |-> 0]
    /\ \E w \in [Sources -> Weights] :
           reg = [p \in Sources |-> [NewRegistry(p, 0) EXCEPT !.weight = w[p]]]
    /\ task = [t \in Tasks |-> Idle("none", NoSource)]
    /\ ncalls = 0
    /\ ExtrasAtRest

NextChoose ==
    \/ \E t \in Tasks : Call(t, 0, {}, 0)
    \/ \E t \in Tasks : AcquireSemaphore(t)
    \/ \E t \in Tasks : AttemptSucceeds(t)
    \/ \E t \in Tasks : AttemptFails(t)

SpecChoose == InitChoose /\ [][NextChoose]_vars

InitRegistry ==
    /\ ServiceAtRest
    /\ RouterAtRest
    /\ ExtrasAtRest

NextRegistry ==
    \/ \E c \in SourceClasses : \E f \in class_methods(c) : RegisterMethod(c, f)
    \/ \E c \in SourceClasses : RegisterDataSource(c)
    \/ CompleteRegistration

SpecRegistry == InitRegistry /\ [][NextRegistry]_vars

\* an empty table of either kind on either database
InitTable ==
    /\ ServiceAtRest
    /\ RouterAtRest
    /\ RegistryAtRest
    /\ PagedAtRest
    /\ SchedulerAtRest
    /\ OthersAtRest
    /\ \E kind \in TableKinds, dialect \in Dialects : table = NewTable(kind, dialect)

\* conflict_columns is None ({}) or names the key column
NextTable ==
    \/ \E obj \in Objects, cc \in {{}, {"key"}} : Upsert(obj, cc)
    \/ \E objs \in Batches, cc \in {{}, {"key"}} : BulkUpsert(objs, cc)

SpecTable == InitTable /\ [][NextTable]_vars

\* The router with a limiter of one request a minute on P1, once both sources
\* have been checked (by calls that were cancelled afterwards), and callers
\* that pass limiters and semaphores of their own
InitLimits ==
    /\ repo = {}
    /\ listing = [s \in Symbols |-> NoDate]
    /\ last = NoCall
    /\ req = NoCall
    /\ calls = <<>>
    /\ now = 0
    /\ ticks = 0
    /\ is_healthy = [p \in Sources |-> TRUE]
    /\ last_check_time = [p \in Sources |-> 0]
    /\ reg = [p \in Sources |-> NewRegistry(p, IF p = "P1" THEN 1 ELSE 0)]
    /\ task = [t \in Tasks |-> Idle("none", NoSource)]
    /\ ncalls = 0
    /\ ExtrasAtRest

NextLimits ==
    \/ \E t \in Tasks, retries \in 0..MaxRetries, own \in SUBSET Overrides :
           Call(t, retries, own, 0)
    \/ \E t \in Tasks : AcquireLimiter(t)
    \/ \E p \in Sources : LimiterLeaks(p)
    \/ \E t \in Tasks : AcquireSemaphore(t)
    \/ \E t \in Tasks : AttemptSucceeds(t)
    \/ \E t \in Tasks : AttemptFails(t)
    \/ \E t \in Tasks : BackoffEnds(t)
    \/ \E t \in Tasks : Cancel(t)

SpecLimits == InitLimits /\ [][NextLimits]_vars

----------------------------------------------------------------------------
(* The service called by one caller at a time *)

StoredRow(s, d) == [symbol |-> s, trade_date |-> d, close_price |-> 1]

\* Any set of stored bars of symbol "A"; symbol "B", which is there for the
\* symbol filter of the queries, has a bar on every day.
Init ==
    /\ \E ds \in SUBSET Days :
           repo = {StoredRow("A", d) : d \in ds} \cup {StoredRow("B", d) : d \in Days}
    /\ listing \in {f \in [Symbols -> Days \cup {NoDate}] : f["B"] = NoDate}
    /\ last = NoCall
    /\ req = NoCall
    /\ calls = <<>>
    /\ RouterAtRest
    /\ ExtrasAtRest

GetDaily(code, start_date, end_date) ==
    /\ \E o \in get_daily_by_code(repo, listing, code, start_date, end_date) :
           /\ last' = o.rec
           /\ repo' = o.repo
    /\ UNCHANGED <<listing, concVars, routerVars, extraVars>>

Next == \E code \in Requested, start_date \in Days, end_date \in Days :
            GetDaily(code, start_date, end_date)

Spec == Init /\ [][Next]_vars

----------------------------------------------------------------------------
(* Two concurrent get_daily_by_code calls with the same arguments. A call
   gives way to the other one where it awaits: at the query of the listing
   date and at the query of the daily bars. *)

Callers == {1, 2}

InitConc ==
    /\ \E ds \in SUBSET Days, other \in {{}, Days} :
           repo = {StoredRow("A", d) : d \in ds} \cup {StoredRow("B", d) : d \in other}
    /\ listing \in {f \in [Symbols -> Days \cup {NoDate}] : f["B"] = NoDate}
    /\ last = NoCall
    /\ \E code \in Requested, start_date \in Days, end_date \in Days :
           req = CallRecord(code, start_date, end_date, "none", "none", <<>>,
                            FALSE, <<>>, <<>>, FALSE)
    /\ calls = [c \in Callers |-> [pc |-> "listing", adjusted |-> NoDate, rec |-> NoCall]]
    /\ RouterAtRest
    /\ ExtrasAtRest

\* line 32 to line 43: the listing date is read, the start adjusted
GetListingDate(c) ==
    /\ calls[c].pc = "listing"
    /\ LET adjusted == adjusted_start_dt(req.start, listing[req.code])
       IN  calls' = [calls EXCEPT ![c] =
                IF NoDataBefore(req.start, adjusted, req.end)
                THEN [pc |-> "done", adjusted |-> adjusted,
                      rec |-> NoDataRecord(req.code, req.start, req.end)]
                ELSE [pc |-> "query", adjusted |-> adjusted, rec |-> NoCall]]
    /\ UNCHANGED <<dailyVars, req, routerVars, extraVars>>

\* line 45 on: the cached bars are read and the call goes on to its end
QueryAndFinish(c) ==
    /\ calls[c].pc = "query"
    /\ \E o \in after_listing(repo, req.code, req.start, req.end, calls[c].adjusted) :
           /\ calls' = [calls EXCEPT ![c] = [pc |-> "done", adjusted |-> @.adjusted,
                                            rec |-> o.rec]]
           /\ repo' = o.repo
    /\ UNCHANGED <<listing, last, req, routerVars, extraVars>>

NextConc == \E c \in Callers : GetListingDate(c) \/ QueryAndFinish(c)

SpecConc == InitConc /\ [][NextConc]_vars

----------------------------------------------------------------------------
(* Properties of get_daily_by_code *)

\* the effective start of a call: max(start, listing date) when the symbol
\* has a listing date, start otherwise
EffectiveStart(r) ==
    IF listing[r.code] # NoDate /\ listing[r.code] > r.start
    THEN listing[r.code] ELSE r.start

Stamps(df) == {df[i].timestamp : i \in 1..Len(df)}

\* the stored bars of the symbol of call r in [a, b]
StoredIn(rows, r, a, b) ==
    {q \in rows : q.symbol = r.code /\ q.trade_date >= a /\ q.trade_date <= b}

\* C1: every row a call returns has its timestamp in [effective_start, end].
C1_RowsInEffectiveRange ==
    last.outcome = "returned" =>
        \A i \in 1..Len(last.result) :
            /\ last.result[i].timestamp >= EffectiveStart(last)
            /\ last.result[i].timestamp <= last.end

\* a call answered with rows, for a symbol listed after the requested start
\* that has a stored bar before its listing date
C1_Witness ==
    /\ last.outcome = "returned"
    /\ last.result # <<>>
    /\ listing[last.code] > last.start
    /\ StoredIn(repo, last, last.start, listing[last.code] - 1) # {}

\* C2: a call returns a bar for every trading day of [effective_start, end]
\* (the upstream holds one for each), and answers from the cache only when
\* the cached rows cover the whole effective range.
C2_CoversEveryTradingDay ==
    last.outcome # "none" =>
        /\ last.outcome = "returned"
        /\ \A d \in EffectiveStart(last)..last.end :
               is_trading_day(d) => d \in Stamps(last.result)

C4_SameResultTwice ==
    last.outcome # "none" =>
        /\ last.outcome = "returned"
        /\ \A o \in get_daily_by_code(repo, listing, last.code, last.start, last.end) :
               o.rec.outcome = "returned" /\ o.rec.result = last.result

\* C5: no two rows a call returns share a timestamp.
C5_NoDuplicateTimestamps ==
    last.outcome = "returned" =>
        \A i, j \in 1..Len(last.result) :
            i # j => last.result[i].timestamp # last.result[j].timestamp

\* a call answered with two rows or more while the other symbol has bars on
\* the same days
C5_Witness ==
    /\ last.outcome = "returned"
    /\ Len(last.result) >= 2
    /\ \A i \in 1..Len(last.result) :
           \E q \in repo : q.symbol # last.code
                           /\ q.trade_date = last.result[i].timestamp

\* C6: a call that fetches a range in which the upstream holds bars returns
\* and leaves every one of these bars in the repository, one row per
\* (symbol, trade_date); any other call leaves the repository unchanged.
C6_WritesWhatItFetched ==
    [][LET r == last'
           fetchedBars == UNION {RangeOf(UpstreamFrame(r.code, r.fetch_ranges[i][1],
                                                        r.fetch_ranges[i][2])) :
                                    i \in 1..Len(r.fetch_ranges)}
       IN  IF fetchedBars # {}
           THEN /\ r.outcome = "returned"
                /\ r.wrote
                /\ \A b \in fetchedBars :
                       Cardinality({q \in repo' : q.symbol = b.symbol
                                                  /\ q.trade_date = b.timestamp}) = 1
           ELSE repo' = repo]_vars

\* C7: a call with several ranges to fetch raises nothing, whatever the
\* router answers for each range, and returns at least the cached rows.
C7_PartialFetchReturns ==
    Len(last.fetch_ranges) >= 2 =>
        /\ last.outcome = "returned"
        /\ {q.trade_date : q \in StoredIn(repo, last, EffectiveStart(last), last.end)}
               \subseteq Stamps(last.result)

\* C8: a call for a symbol whose listing date makes the effective start later
\* than the end returns an empty frame, queries no daily bar, fetches nothing
\* and leaves the repository as it was.
C8_NothingBeforeListing ==
    [][LET r == last'
       IN  (listing[r.code] # NoDate /\ Max(r.start, listing[r.code]) > r.end)
           => /\ r.outcome = "returned"
              /\ r.result = <<>>
              /\ ~r.read
              /\ r.fetch_ranges = <<>>
              /\ r.fetched = <<>>
              /\ ~r.wrote
              /\ repo' = repo]_vars

\* a call for start <= end < listing date, with stored bars in [start, end]
C8_Witness ==
    /\ last.path = "nodata"
    /\ last.start <= last.end
    /\ listing[last.code] > last.end
    /\ StoredIn(repo, last, last.start, last.end) # {}


\* C9: when two concurrent calls with the same arguments have ended, both
\* have returned and the repository holds exactly one row for every bar they
\* had to fetch.
C9_ConcurrentCallsConverge ==
    (\A c \in Callers : calls[c].pc = "done") =>
        \A c \in Callers :
            /\ calls[c].rec.outcome = "returned"
            /\ \A i \in 1..Len(calls[c].rec.fetch_ranges) :
                   \A b \in RangeOf(UpstreamFrame(req.code, calls[c].rec.fetch_ranges[i][1],
                                                  calls[c].rec.fetch_ranges[i][2])) :
                       Cardinality({q \in repo : q.symbol = b.symbol
                                                 /\ q.trade_date = b.timestamp}) = 1

\* the step is the selection of a call of task t
Selects(t) == ncalls' = ncalls + 1 /\ task'[t] # task[t]

\* the step ends a call of task t other than by cancellation
Ends(t) ==
    task[t].pc # "idle" /\ task'[t].pc = "idle" /\ task'[t].outcome # "cancelled"

Stats(r) == <<r.call_count, r.error_count, r.last_call_time>>

\* C10: no call is dispatched to a provider whose is_healthy flag is false at
\* the selection; while P1 is unhealthy and P2 healthy every selection takes
\* P2; the call_count, error_count and last_call_time of an unhealthy provider
\* with no call in flight stay as they are; and a call that ends (other than
\* by cancellation) adds exactly 1 to the call_count of its provider and
\* nothing to any other.
C10_NeverDispatchesToUnhealthy ==
    [][ /\ \A t \in Tasks :
              Selects(t) =>
                  /\ task'[t].src # NoSource => is_healthy[task'[t].src]
                  /\ (~is_healthy["P1"] /\ is_healthy["P2"]) => task'[t].src = "P2"
        /\ \A p \in Sources :
              (~is_healthy[p] /\ \A t \in Tasks : task[t].pc = "idle" \/ task[t].src # p)
                  => Stats(reg'[p]) = Stats(reg[p])
        /\ \A t \in Tasks :
              Ends(t) =>
                  \A p \in Sources :
                      reg'[p].call_count =
                          reg[p].call_count + (IF p = task[t].src THEN 1 ELSE 0)
        /\ (\A t \in Tasks : ~Ends(t)) =>
              \A p \in Sources : reg'[p].call_count = reg[p].call_count
      ]_vars

\* one task made two calls: the first went to P1 and failed, the second was
\* made with P1 unhealthy and was served by P2 at a later time
C10_Witness ==
    /\ ncalls = 2
    /\ task[2] = Idle("none", NoSource)
    /\ task[1] = Idle("success", "P2")
    /\ ~is_healthy["P1"] /\ is_healthy["P2"]
    /\ Stats(reg["P1"]) = <<1, 1, 0>>
    /\ Stats(reg["P2"]) = <<1, 0, 1>>

\* the step is a call of ServiceMethod.call by task t
Calls(t) == task[t].pc = "idle" /\ task'[t] # task[t]

\* C11: a call made while a provider of the method is marked unhealthy starts
\* by probing an unhealthy provider (so that a provider marked unhealthy by a
\* failed call is probed again by later calls).
C11_UnhealthyProbedBeforeRouting ==
    [][ \A t \in Tasks :
            (Calls(t) /\ \E p \in Sources : ~is_healthy[p])
                => task'[t].pc = "probe" /\ ~is_healthy[task'[t].src]
      ]_vars

\* C12: a call made while every provider of the method is marked unhealthy
\* fails with DataSourceUnavailableError in that very step: no provider is
\* chosen, probed or invoked, and no registration, health flag or check time
\* changes.
C12_AllUnhealthyFailsUntouched ==
    [][ \A t \in Tasks :
            (Calls(t) /\ \A p \in Sources : ~is_healthy[p])
                => /\ task'[t] = Idle("unavailable", NoSource)
                   /\ \A u \in Tasks \ {t} : task'[u] = task[u]
                   /\ reg' = reg
                   /\ is_healthy' = is_healthy
                   /\ last_check_time' = last_check_time
      ]_vars

\* both providers were marked unhealthy by failed calls, and a later call
\* has failed for want of a provider
C12_Witness ==
    /\ \A p \in Sources : ~is_healthy[p] /\ reg[p].error_count = 1
    /\ task[1] = Idle("unavailable", NoSource)
    /\ \A t \in Tasks : task[t].pc = "idle"

\* C13: in every reachable state, whatever the outcomes of the calls so far
\* and however they interleave, every registration has
\* 0 <= success_rate <= 1 and an active count >= 0.
C13_RateAndActiveCountInRange ==
    \A p \in Sources :
        /\ 0 <= reg[p].sr_num
        /\ reg[p].sr_num <= Pow5(reg[p].sr_exp)
        /\ Cardinality(reg[p].active_tasks) >= 0

\* a registration that has recorded a success and a failure, with a rate
\* strictly between 0 and 1
C13_Witness ==
    \E p \in Sources :
        /\ reg[p].call_count = 2
        /\ reg[p].error_count = 1
        /\ 0 < reg[p].sr_num
        /\ reg[p].sr_num < Pow5(reg[p].sr_exp)

\* the calls past the health check of source p: waiting, running or between
\* two attempts
InFlight(p) ==
    {t \in Tasks : task[t].src = p
                   /\ task[t].pc \in {"wait_limiter", "wait_sem", "running", "backoff"}}

\* C14: in every reachable state the active tasks of a registration are
\* exactly the calls in flight on it, and the holders of its semaphore are
\* exactly the calls whose provider method is running under that semaphore:
\* a call that has left (by return, exception after the last attempt,
\* timeout or cancellation at any await) holds nothing, and a registration
\* with no call in flight has an active count of 0 and all permits free.
C14_ExitsReleaseEverything ==
    \A p \in Sources :
        /\ reg[p].active_tasks = InFlight(p)
        /\ reg[p].holders =
               {t \in InFlight(p) : task[t].pc = "running" /\ uses_semaphore(task[t])}
        /\ Cardinality(reg[p].holders) <= max_concurrent[p]

\* a call runs on P1 under its semaphore, after the other task's call to P1
\* was cancelled
C14_Witness ==
    /\ task[1].pc = "running" /\ task[1].src = "P1" /\ task[1].own = {}
    /\ task[2] = Idle("cancelled", "P1")
    /\ reg["P1"].holders = {1}
    /\ reg["P1"].active_tasks = {1}

\* C15: a step that cancels a call in flight leaves the call_count,
\* error_count and success_rate of every registration as they were.
C15_CancellationRecordsNothing ==
    [][ \A t \in Tasks :
            (task[t].pc # "idle" /\ task'[t] = Idle("cancelled", task[t].src))
                => \A p \in Sources :
                       /\ reg'[p].call_count = reg[p].call_count
                       /\ reg'[p].error_count = reg[p].error_count
                       /\ reg'[p].sr_num = reg[p].sr_num
                       /\ reg'[p].sr_exp = reg[p].sr_exp
      ]_vars

\* the only call so far went to P2, passed the health check and was
\* cancelled during an attempt or a backoff wait
C15_Witness ==
    /\ ncalls = 1
    /\ task[1] = Idle("cancelled", "P2")
    /\ task[2] = Idle("none", NoSource)
    /\ last_check_time["P2"] = 0
    /\ reg["P2"].call_count = 0

\* C16: a call that passes its own limiter (semaphore) never waits for,
\* takes or changes the limiter (semaphore) of the registration, while a call
\* that passes none takes the registration's: the step in which a call gets
\* past the limiter adds 1 to the level of the registration's limiter exactly
\* when the call passed no limiter and the registration has one, the step in
\* which its provider method starts makes it a holder of the registration's
\* semaphore exactly when it passed no semaphore and the registration has
\* one, and no call changes the configured limits.
C16_OverridesLeaveRegistrationAlone ==
    [][ \A t \in Tasks :
            LET p    == task'[t].src
                own  == task'[t].own
            IN  /\ (task[t].pc \in {"idle", "backoff", "wait_limiter"}
                        /\ task'[t].pc \in {"wait_sem", "running"})
                       => reg'[p].level = reg[p].level +
                              (IF "limiter" \notin own /\ reg[p].qps_cfg > 0
                               THEN 1 ELSE 0)
                /\ (task[t].pc # "running" /\ task'[t].pc = "running")
                       => (t \in reg'[p].holders
                              <=> ("semaphore" \notin own /\ max_concurrent[p] > 0))
                /\ task'[t].pc = "wait_limiter" => "limiter" \notin own
                /\ task'[t].pc = "wait_sem" => "semaphore" \notin own
                /\ \A q \in Sources : reg'[q].qps_cfg = reg[q].qps_cfg
      ]_vars

\* two calls run on P1, whose semaphore has one permit: task 1 passed a
\* limiter and a semaphore of its own, task 2 passed none and holds the
\* permit and the one token of the registration
C16_Witness ==
    /\ task[1].pc = "running" /\ task[1].src = "P1" /\ task[1].own = Overrides
    /\ task[2].pc = "running" /\ task[2].src = "P1" /\ task[2].own = {}
    /\ reg["P1"].holders = {2}
    /\ reg["P1"].level = 1

\* C17: register_data_source on a class whose name is already registered
\* raises ValueError and leaves the manager as it was: the same sources in
\* the same order with the same instances, no further instance of any class,
\* and the same service methods with the same implementations.
C17_DuplicateNameRejected ==
    [][ \A c \in SourceClasses :
            (mgr'.op = <<"register_data_source", c>> /\ mgr' # mgr
                 /\ class_name(c) \in SourceNames(mgr))
                => /\ mgr'.raised = "ValueError"
                   /\ mgr'.data_sources = mgr.data_sources
                   /\ mgr'.created = mgr.created
                   /\ mgr'.service_methods = mgr.service_methods
                   /\ mgr'.registries = mgr.registries
      ]_vars

\* EastMoney is registered and has its implementations, and EastMoneyCopy,
\* which has the same name, has just been refused
C17_Witness ==
    /\ mgr.op = <<"register_data_source", "EastMoneyCopy">>
    /\ mgr.raised = "ValueError"
    /\ mgr.created = [c \in SourceClasses |-> IF c = "EastMoney" THEN 1 ELSE 0]
    /\ mgr.completes = 1
    /\ Len(mgr.service_methods["fetch_stock_daily_data"]) = 1

\* the value of column c of an object handed to upsert
ObjCol(o, c) == IF c = "id" THEN NoId ELSE IF c = "key" THEN o.key ELSE o.val

SameKey(o1, o2, cols) == \A c \in cols : ObjCol(o1, c) = ObjCol(o2, c)

\* C18: after every upsert or bulk_upsert the call has not raised, and for
\* every object of the call a read by its conflict key returns exactly one
\* row, equal on every updated column to the last object of the call with
\* that key, whether or not a row with that key was there before.
C18_UpsertRoundTrip ==
    LET l == table.last
    IN  l.op # "none" =>
            /\ ~l.raised
            /\ \A i \in DOMAIN l.objs :
                   LET o     == l.objs[i]
                       j     == CHOOSE k \in DOMAIN l.objs :
                                    /\ SameKey(l.objs[k], o, l.conflict)
                                    /\ \A m \in DOMAIN l.objs :
                                           SameKey(l.objs[m], o, l.conflict) => m <= k
                       found == {r \in table.rows :
                                    \A c \in l.conflict : Col(r, c) = ObjCol(o, c)}
                   IN  /\ Cardinality(found) = 1
                       /\ \A r \in found : \A c \in l.updated :
                              Col(r, c) = ObjCol(l.objs[j], c)

----------------------------------------------------------------------------
(* Paging alone: rows come and go while list_paged runs *)

InitPaged ==
    /\ ServiceAtRest
    /\ RouterAtRest
    /\ ExtrasAtRest

\* the controller admits page >= 1 and 1 <= pageSize <= 100
NextPaged ==
    \/ \E o \in BacktestRows : InsertBacktest(o)
    \/ \E o \in BacktestRows : DeleteBacktest(o)
    \/ \E page \in 1..MaxPage, page_size \in 1..MaxPageSize, keyword \in Keywords :
           ListPagedItems(page, page_size, keyword)
    \/ ListPagedCount

SpecPaged == InitPaged /\ [][NextPaged]_vars

Matching(rows, keyword) ==
    IF Truthy(keyword) THEN {o \in rows : keyword_filter(o, keyword)} ELSE rows

\* n is the least number of pages of page_size rows that hold total rows
IsCeil(n, total, page_size) ==
    n * page_size >= total /\ (n - 1) * page_size < total

\* objs is the slice [offset, offset + page_size) of M in descending id order
IsPage(objs, M, offset, page_size) ==
    /\ Len(objs) <= page_size
    /\ Len(objs) = IF Cardinality(M) - offset > page_size THEN page_size
                   ELSE IF Cardinality(M) > offset THEN Cardinality(M) - offset
                   ELSE 0
    /\ \A i \in 1..Len(objs) :
           /\ objs[i] \in M
           /\ Cardinality({q \in M : q.id > objs[i].id}) = offset + i - 1

\* C19: list_paged(page, page_size, keyword) returns total = the number of
\* rows matching the keyword filter, total_pages = ceil(total / page_size)
\* (0 when total is 0) and items = at most page_size matching rows taken
\* from offset (page - 1) * page_size; both queries use the same filter.
C19_ListPagedCountsAndSlices ==
    [][/\ (paged.pc = "idle" /\ paged'.pc = "count") =>
              IsPage(paged'.objs,
                     Matching(paged.rows, paged'.args.keyword),
                     (paged'.args.page - 1) * paged'.args.page_size,
                     paged'.args.page_size)
       /\ (paged.pc = "count" /\ paged'.pc = "idle") =>
              /\ paged'.result.total =
                     Cardinality(Matching(paged.rows, paged.args.keyword))
              /\ IsCeil(paged'.result.total_pages, paged'.result.total,
                        paged.args.page_size)
              /\ (paged'.result.total = 0 => paged'.result.total_pages = 0)
              /\ Len(paged'.result.items) = Len(paged.objs)
              /\ \A i \in 1..Len(paged.objs) :
                     paged'.result.items[i].id = paged.objs[i].id
              /\ paged'.result.page = paged.args.page
              /\ paged'.result.page_size = paged.args.page_size]_vars

\* the second page of two rows when three rows match "C" by their name "c"
C19_Witness ==
    /\ paged.result.total = 3
    /\ paged.result.total_pages = 2
    /\ paged.result.page = 2
    /\ paged.result.page_size = 2
    /\ Len(paged.result.items) = 1
    /\ paged.args.keyword = Text(<<"C">>)

----------------------------------------------------------------------------
(* The scheduler alone, in either mode and any calling context *)

InitScheduler ==
    /\ ServiceAtRest
    /\ RouterAtRest
    /\ RegistryAtRest
    /\ TableAtRest
    /\ PagedAtRest
    /\ OthersAtRest
    /\ \E use_async \in BOOLEAN, loop \in LoopStates :
           sched = NewScheduler(use_async, loop)

NextScheduler ==
    \/ SchedStart
    \/ SchedShutdown
    \/ RunCallback
    \/ \E j \in Jobs, run_on_start \in BOOLEAN, behaviour \in Behaviours :
           AddTask(j, run_on_start, behaviour)
    \/ \E j \in Jobs : JobFires(j)
    \/ \E j \in Jobs : JobCompletes(j)

SpecScheduler == InitScheduler /\ [][NextScheduler]_vars

\* C20: start() and shutdown() are idempotent: in any sequence of calls the
\* underlying scheduler is started only when it is not running and shut down
\* only when it is running, and no call raises.
C20_LifecycleIdempotent ==
    [][/\ sched'.starts > sched.starts => sched.state = "stopped"
       /\ sched'.shutdowns > sched.shutdowns => sched.state = "running"
       /\ sched'.ncalls > sched.ncalls => sched'.raised = "none"]_vars

\* C21: shutdown() returns only after every job that was executing when it
\* was called has completed, in either scheduler mode.
C21_ShutdownWaitsForJobs ==
    [][(sched'.ncalls > sched.ncalls /\ sched'.op = "shutdown"
            /\ sched._running) =>
           \A j \in sched.executing :
               j \notin sched'.executing /\ j \notin sched'.cancelled]_vars

\* C22: add_task with run_on_start = true stores the cron trigger and invokes
\* the job function exactly once, in-line or through the callback it hands
\* to the loop, for plain and coroutine functions in both scheduler modes;
\* with run_on_start = false the function is not invoked.
C22_RunOnStartInvokesOnce ==
    [][/\ sched'.nadds > sched.nadds =>
              LET j == sched'.added.job
              IN  /\ sched'.jobs[j] # "none"
                  /\ IF sched'.added.run_on_start
                     THEN \/ /\ sched'.invoked[j] = sched.invoked[j] + 1
                             /\ sched'.callbacks = sched.callbacks
                          \/ /\ sched'.invoked = sched.invoked
                             /\ sched'.callbacks =
                                    Append(sched.callbacks, "create_task")
                     ELSE /\ sched'.invoked = sched.invoked
                          /\ sched'.callbacks = sched.callbacks
       /\ (sched.callbacks # <<>> /\ sched'.callbacks = Tail(sched.callbacks)
               /\ Head(sched.callbacks) = "create_task") =>
              sched'.invoked["async_job"] = sched.invoked["async_job"] + 1]_vars

----------------------------------------------------------------------------
(* One run of the daily job over any stored bars and known symbols *)

InitDailyJob ==
    /\ listing = [s \in Symbols |-> NoDate]
    /\ last = NoCall
    /\ req = NoCall
    /\ calls = <<>>
    /\ RouterAtRest
    /\ RegistryAtRest
    /\ TableAtRest
    /\ PagedAtRest
    /\ SchedulerAtRest
    /\ SignalsAtRest
    /\ IndicatorsAtRest
    /\ \E today \in Days, known \in SUBSET Symbols, stored \in SUBSET Symbols :
           /\ job = [NewJob EXCEPT !.today = today, !.known = known]
           /\ repo = {StoredRow(s, today) : s \in stored}

NextDailyJob ==
    \/ \E order \in UNION {[1..n -> Symbols] : n \in 0..Cardinality(Symbols)} :
           JobBegins(order)
    \/ \E answer \in FetchAnswers : JobFetches(answer)
    \/ JobEnds

SpecDailyJob == InitDailyJob /\ [][NextDailyJob]_vars

\* C23: one run of update_stock_daily processes every known symbol, so that
\* when the job finishes the daily-bar repository holds today's bar for
\* every symbol for which the upstream returned one.
C23_JobStoresTodaysBars ==
    (job.pc = "done" /\ job.outcome = "returned") =>
        /\ job.stocks = <<>>
        /\ \A s \in job.returned :
               \E r \in repo : r.symbol = s /\ r.trade_date = job.today

\* a Monday-to-Friday date that is not a holiday
Required(d) == Weekday(d) \in 0..4 /\ d \notin PublicHolidays

\* the dates of the bars the call of record r found cached
CachedDates(rows, r) ==
    {q.trade_date : q \in StoredIn(rows, r, EffectiveStart(r), r.end)}

\* the required dates between the earliest and the latest cached date that
\* have no cached bar
RequiredMissing(rows, r) ==
    LET cached == CachedDates(rows, r)
    IN  {d \in Days : /\ Required(d)
                      /\ d \notin cached
                      /\ \E a \in cached : a <= d
                      /\ \E b \in cached : d <= b}

\* C24: a date counts as required exactly when it is a Monday-to-Friday date
\* that is not a holiday: a call with cached bars is answered from the cache
\* exactly when no required date between the earliest and the latest cached
\* date lacks a bar, and otherwise asks the upstream for exactly the required
\* dates that lack one; week-ends and holidays are never asked for.
C24_OnlyTradingDaysAreRequired ==
    /\ \A d \in Days : is_trading_day(d) <=> Required(d)
    /\ (last.read /\ CachedDates(repo, last) # {}) =>
           /\ last.path = "cache" <=> RequiredMissing(repo, last) = {}
           /\ last.path # "cache" =>
                  UNION {r[1]..r[2] : r \in RangeOf(last.fetch_ranges)}
                      = RequiredMissing(repo, last)

\* bars cached on both sides of a week-end and a holiday, answered from the
\* cache
C24_Witness ==
    /\ last.path = "cache"
    /\ \E a, b \in CachedDates(repo, last) :
           /\ a < b
           /\ \E d \in a..b : Weekday(d) >= 5
           /\ \E d \in a..b : d \in PublicHolidays

----------------------------------------------------------------------------
(* The signal manager alone *)

InitSignals ==
    /\ ServiceAtRest
    /\ RouterAtRest
    /\ ExtrasAtRest

NextSignals ==
    \/ \E c \in StrategyConfigs : AddStrategy(c)
    \/ \E n \in StrategyNames : RemoveStrategy(n)
    \/ \E n \in StrategyNames, enabled \in BOOLEAN : EnableStrategy(n, enabled)
    \/ \E n \in StrategyNames, weight \in {-1, 5, 11} : SetStrategyWeight(n, weight)

SpecSignals == InitSignals /\ [][NextSignals]_vars

\* C25: add_strategy returns True and registers the strategy under its name
\* in strategies and in strategy_configs when the name is a registered
\* strategy; for an unknown name it returns False and leaves both unchanged.
C25_AddStrategyReturnsBool ==
    [][signals'.last.op = "add_strategy" /\ signals'.last # signals.last =>
           LET name == signals'.last.name
           IN  IF name \in StrategyRegistry
               THEN (signals'.last.result \notin {"ConfigurationError"}) =>
                        /\ signals'.last.result = "True"
                        /\ name \in DOMAIN signals'.strategies
                        /\ name \in DOMAIN signals'.strategy_configs
               ELSE /\ signals'.last.result = "False"
                    /\ signals'.strategies = signals.strategies
                    /\ signals'.strategy_configs = signals.strategy_configs]_vars

\* ---------------------------------------------------------------------
\* Specification of the indicator manager
\* ---------------------------------------------------------------------

InitIndicators ==
    /\ ServiceAtRest
    /\ RouterAtRest
    /\ RegistryAtRest
    /\ TableAtRest
    /\ PagedAtRest
    /\ SchedulerAtRest
    /\ JobAtRest
    /\ SignalsAtRest
    /\ \E configs \in [IndicatorRegistry -> IndicatorConfigs \ {"invalid"}] :
           indic = NewIndicatorManager(configs)

NextIndicators ==
    \/ \E name \in IndicatorNames : \E df \in Frames :
           CalculateIndicator(name, df)
    \/ \E name \in IndicatorNames : \E config \in IndicatorConfigs :
           UpdateConfig(name, config)
    \/ ClearCache

SpecIndicators == InitIndicators /\ [][NextIndicators]_vars

\* the indicator a cached result was stored for
KeysOf(im, name) ==
    {k \in DOMAIN im._cached_results : im._cached_results[k].name = name}

\* every cached result was computed with its indicator's current configuration
Coherent(im) ==
    \A k \in DOMAIN im._cached_results :
        im._cached_results[k].config =
            im.indicator_configs[im._cached_results[k].name]

\* C26: a calculate_indicator(name, df) that finds its key returns the very
\* object cached for it and makes no new one, and only a successful
\* update_config or clear_cache removes cached objects; after
\* update_config(name, cfg) nothing cached for name is left and after
\* clear_cache nothing at all, so that the next calculate_indicator(name, df)
\* makes a new object, and every object returned or cached carries the
\* indicator's current configuration.
C26_CacheCoherence ==
    [][/\ Coherent(indic')
       /\ \A name \in IndicatorNames : \A df \in Frames :
              indic' = calculate_indicator(indic, name, df) =>
                  LET key == cache_key(name, df)
                      r == indic'.last.result
                  IN  /\ \A k \in DOMAIN indic._cached_results :
                             /\ k \in DOMAIN indic'._cached_results
                             /\ indic'._cached_results[k] = indic._cached_results[k]
                      /\ key \in DOMAIN indic._cached_results =>
                             /\ indic'.last.outcome = "returned"
                             /\ r = indic._cached_results[key]
                             /\ indic'.results = indic.results
                      /\ (key \notin DOMAIN indic._cached_results
                             /\ indic'.last.outcome = "returned") =>
                             /\ r.id = indic.results + 1
                             /\ indic'.results = r.id
                             /\ r.config = indic'.indicator_configs[name]
                             /\ r.data = df.data
                             /\ indic'._cached_results[key] = r
       /\ \A name \in IndicatorNames : \A config \in IndicatorConfigs :
              indic' = update_config(indic, name, config) =>
                  IF indic'.last.outcome = "None"
                  THEN /\ indic'.indicator_configs[name] = config
                       /\ KeysOf(indic', name) = {}
                       /\ \A df \in Frames :
                              cache_key(name, df) \notin DOMAIN indic'._cached_results
                  ELSE /\ indic'.indicator_configs = indic.indicator_configs
                       /\ indic'._cached_results = indic._cached_results
       /\ indic' = clear_cache(indic) => DOMAIN indic'._cached_results = {}
      ]_vars

\* a result cached under c1, the configuration updated to c2, and the next
\* call for the same frame answered by a new object carrying c2
C26_Witness ==
    /\ indic.last.op = "calculate_indicator"
    /\ indic.last.outcome = "returned"
    /\ indic.last.name = "MA"
    /\ indic.last.result.id = 2
    /\ indic.last.result.config = "c2"
    /\ indic.indicator_configs["MA"] = "c2"
    /\ indic.indicator_configs["MACD"] = "c1"
    /\ DOMAIN indic._cached_results = {cache_key("MA", indic.last.df)}

----------------------------------------------------------------------------
(* The retry loop of ServiceMethod.call *)

\* the step ends the call of task t with the exception of its last attempt
FailsFinally(t) ==
    /\ task[t].pc \in {"wait_limiter", "wait_sem", "running"}
    /\ task'[t] = Idle("failed", task[t].src)

\* the step completes the health check of source p made for a call
Probed(p) ==
    \E t \in Tasks : task[t].pc = "probe" /\ task[t].src = p /\ task'[t].pc # "probe"

\* C27: the step in which the last attempt of a call raises sets is_healthy
\* of its provider to false and last_check_time to the time of the step; a
\* call selects only a provider whose flag is true; and a flag that is false
\* becomes true only in a step that completes a health check of that
\* provider.
C27_FinalFailureMarksUnhealthy ==
    [][ /\ \A t \in Tasks :
              FailsFinally(t) =>
                  /\ ~is_healthy'[task[t].src]
                  /\ last_check_time'[task[t].src] = now'
        /\ \A t \in Tasks :
              (Selects(t) /\ task'[t].src # NoSource) => is_healthy[task'[t].src]
        /\ \A p \in Sources :
              (~is_healthy[p] /\ is_healthy'[p]) => Probed(p)
      ]_vars

\* the call of task 1 failed on P1 and marked it; the health check of a call
\* of task 2, chosen before, then answered true, and that call runs on P1
C27_Witness ==
    /\ task[1] = Idle("failed", "P1")
    /\ task[2].pc = "running" /\ task[2].src = "P1"
    /\ is_healthy["P1"]
    /\ reg["P1"].error_count = 1
    /\ last_check_time["P1"] = now

\* success_rate of r2 = 0.8 * success_rate of r1 + 0.2 * o
IsEmaOf(r2, r1, o) ==
    5 * r2.sr_num * Pow5(r1.sr_exp) =
        (4 * r1.sr_num + o * Pow5(r1.sr_exp)) * Pow5(r2.sr_exp)

SameStats(r2, r1) ==
    /\ r2.call_count = r1.call_count
    /\ r2.error_count = r1.error_count
    /\ r2.sr_num = r1.sr_num
    /\ r2.sr_exp = r1.sr_exp

\* C28: a registration that has recorded no call has success_rate 1; the step
\* that ends a call by return or by the exception of its last attempt adds 1
\* to call_count of the chosen registration, adds 1 to its error_count exactly
\* when the call failed, and makes its success_rate 0.8 * success_rate +
\* 0.2 * o with o = 1 for a return and 0 for a failure, leaving the other
\* registration alone; every other step (an attempt that fails and is
\* retried, a wait, a new attempt, a cancellation) changes no call_count,
\* error_count or success_rate.
C28_StatisticsOncePerCall ==
    [][ /\ \A p \in Sources :
              reg[p].call_count = 0 =>
                  reg[p].error_count = 0 /\ reg[p].sr_num = Pow5(reg[p].sr_exp)
        /\ \A t \in Tasks :
              Ends(t) =>
                  LET p == task[t].src
                      failed == task'[t].outcome # "success"
                  IN  /\ reg'[p].call_count = reg[p].call_count + 1
                      /\ reg'[p].error_count =
                             reg[p].error_count + (IF failed THEN 1 ELSE 0)
                      /\ IsEmaOf(reg'[p], reg[p], IF failed THEN 0 ELSE 1)
                      /\ \A q \in Sources \ {p} : SameStats(reg'[q], reg[q])
        /\ (\A t \in Tasks : ~Ends(t)) =>
              \A p \in Sources : SameStats(reg'[p], reg[p])
      ]_vars

\* a call failed on P2 after its only attempt and left a rate of 0.8 there,
\* while a call on P1 runs its second attempt, the first having failed, and
\* P1 has recorded nothing yet
C28_Witness ==
    /\ task[2] = Idle("failed", "P2")
    /\ reg["P2"].call_count = 1 /\ reg["P2"].error_count = 1
    /\ reg["P2"].sr_num = 4 /\ reg["P2"].sr_exp = 1
    /\ task[1].pc = "running" /\ task[1].src = "P1" /\ task[1].attempt = 2
    /\ reg["P1"].call_count = 0 /\ reg["P1"].sr_num = 1 /\ reg["P1"].sr_exp = 0

\* the attempts a call with this retries argument makes when all of them fail
Attempts(retries) == IF retries > 0 THEN retries ELSE 1

\* the step is one in which the provider method of the call of task t raises
MethodRaises(t) ==
    /\ task[t].pc = "running"
    /\ task'[t].pc = "backoff" \/ task'[t] = Idle("failed", task[t].src)
    /\ task[t].deadline = NoTime \/ now < task[t].deadline

\* the call of task t has invoked the provider method in each of its attempts
AllInvoked(t) == task[t].invoked = task[t].attempt

\* C29 as stated: when the provider method has raised in every attempt, the
\* call fails after exactly `retries` invocations.
C29_FailsAfterRetriesInvocations ==
    [][ \A t \in Tasks :
            (MethodRaises(t) /\ AllInvoked(t) /\ task'[t].pc = "idle")
                => task[t].invoked = task[t].retries
      ]_vars

\* C29, amended: the attempts of a call are numbered from 1 and an attempt
\* invokes the provider method at most once; when the method raises, another
\* attempt follows exactly when fewer than `retries` attempts have been made,
\* and otherwise the call fails at once, so that a call whose method raised in
\* every attempt fails after exactly `retries` invocations when retries >= 1
\* and after exactly one when retries <= 0; the step in which the method
\* returns ends the call with success, whatever the number of the attempt.
C29_FailsAfterAllAttempts ==
    [][ \A t \in Tasks :
            /\ task[t].pc # "idle" =>
                   /\ task[t].invoked <= task[t].attempt
                   /\ task[t].attempt <= Attempts(task[t].retries)
            /\ (task[t].pc = "backoff" /\ task'[t].pc \notin {"backoff", "idle"})
                   => task'[t].attempt = task[t].attempt + 1
            /\ MethodRaises(t) =>
                   IF task[t].attempt < Attempts(task[t].retries)
                   THEN task'[t].pc = "backoff"
                   ELSE /\ task'[t] = Idle("failed", task[t].src)
                        /\ AllInvoked(t) =>
                               task[t].invoked = Attempts(task[t].retries)
            /\ (task[t].pc = "running" /\ task'[t].pc = "idle"
                    /\ task'[t].outcome \notin {"failed", "cancelled"})
                   => task'[t] = Idle("success", task[t].src)
      ]_vars

\* a call made with retries = 2 runs its second and last attempt, the
\* provider method having raised in the first, after another call has failed
C29_Witness ==
    /\ task[1].pc = "running" /\ task[1].retries = 2
    /\ task[1].attempt = 2 /\ task[1].invoked = 2
    /\ task[2] = Idle("failed", "P2")
    /\ reg["P2"].error_count = 1

InAttempt(tk) == tk.pc \in {"wait_limiter", "wait_sem", "running"}

\* the step starts an attempt of the call of task t
StartsAttempt(t) == ~InAttempt(task[t]) /\ InAttempt(task'[t])

\* the step ends an attempt of the call of task t whose wait_for has expired
TimesOut(t) ==
    /\ InAttempt(task[t])
    /\ task[t].deadline # NoTime /\ now >= task[t].deadline
    /\ task'[t].pc = "backoff" \/ task'[t] = Idle("failed", task[t].src)

\* C30: every attempt of a call made with a timeout starts with the full
\* timeout ahead of it, whenever the call and its earlier attempts started,
\* and an attempt of a call made without one has no deadline; no attempt is
\* in flight after its timeout has expired; the step in which an attempt
\* times out, be it waiting for the semaphore or in the provider method,
\* takes the attempt's permit back and counts as a failed attempt: another
\* attempt follows when fewer than `retries` were made, and otherwise the
\* call fails, with the error recorded and the provider marked.
C30_TimeoutPerAttempt ==
    [][ \A t \in Tasks :
            /\ StartsAttempt(t) =>
                   /\ task'[t].attempt = task[t].attempt + 1
                   /\ task'[t].deadline =
                          IF task'[t].timeout > 0 THEN now + task'[t].timeout
                          ELSE NoTime
            /\ (InAttempt(task[t]) /\ task[t].timeout > 0) =>
                   now <= task[t].deadline
            /\ TimesOut(t) =>
                   LET p == task[t].src
                   IN  /\ t \notin reg'[p].holders
                       /\ IF task[t].attempt < Attempts(task[t].retries)
                          THEN /\ task'[t].pc = "backoff"
                               /\ SameStats(reg'[p], reg[p])
                               /\ is_healthy' = is_healthy
                          ELSE /\ task'[t] = Idle("failed", p)
                               /\ reg'[p].error_count = reg[p].error_count + 1
                               /\ ~is_healthy'[p]
                               /\ last_check_time'[p] = now
      ]_vars

\* a call made with a timeout of 2 and retries = 2 at time 0 is in its second
\* attempt at time 3, past the timeout counted from the start of the call,
\* with a deadline of its own, without having invoked the method before
C30_Witness ==
    \E t \in Tasks :
        /\ task[t].pc = "running"
        /\ task[t].timeout = 2
        /\ task[t].attempt = 2
        /\ task[t].invoked = 1
        /\ now = 3
        /\ task[t].deadline = 4

----------------------------------------------------------------------------
(* Limiter and semaphore of a registration *)

\* the step takes the call of task t past the limiter
PassesLimiter(t) ==
    /\ task[t].pc \in {"idle", "probe", "backoff", "wait_limiter"}
    /\ task'[t].pc \in {"wait_sem", "running"}

\* C31: no call that waits for the limiter of its registration holds a permit
\* of the semaphore; a call whose provider method runs under the
\* registration's semaphore holds a permit of it; and a call that goes
\* through the registration's limiter gets past it only in a step that finds
\* the limiter below its capacity and takes one unit of it, a permit being
\* taken in that step or later.
C31_LimiterBeforeSemaphore ==
    [][ \A t \in Tasks :
            /\ task'[t].pc = "wait_limiter" =>
                   \A p \in Sources : t \notin reg'[p].holders
            /\ (task'[t].pc = "running" /\ uses_semaphore(task'[t])) =>
                   t \in reg'[task'[t].src].holders
            /\ (PassesLimiter(t) /\ uses_limiter(reg, task'[t])) =>
                   LET p == task'[t].src
                   IN  /\ reg[p].level < reg[p].qps_cfg
                       /\ reg'[p].level = reg[p].level + 1
                       /\ t \notin reg[p].holders
      ]_vars

\* a call waits for the limiter of P1 holding nothing, while the call that
\* took the limiter's only unit runs under the semaphore of P1
C31_Witness ==
    /\ task[1].pc = "wait_limiter" /\ task[1].src = "P1"
    /\ task[2].pc = "running" /\ task[2].src = "P1" /\ task[2].own = {}
    /\ reg["P1"].holders = {2}
    /\ reg["P1"].level = 1

\* the calls without a semaphore of their own whose provider method runs on p
RunningOn(p) ==
    {t \in Tasks : task[t].pc = "running" /\ task[t].src = p
                   /\ "semaphore" \notin task[t].own}

\* C32: in every reachable state the provider method of a registration with
\* a concurrency limit runs for at most that many of the calls that passed no
\* semaphore of their own, and only such a call waits for the semaphore of a
\* registration, and only of one that has a concurrency limit.
C32_AtMostLimitRunning ==
    \A p \in Sources :
        /\ max_concurrent[p] > 0 => Cardinality(RunningOn(p)) <= max_concurrent[p]
        /\ \A t \in Tasks :
               (task[t].pc = "wait_sem" /\ task[t].src = p) =>
                   /\ max_concurrent[p] > 0
                   /\ "semaphore" \notin task[t].own

\* a call to P1 waits for the permit that another call to P1, in its second
\* attempt, holds
C32_Witness ==
    /\ task[1].pc = "wait_sem" /\ task[1].src = "P1"
    /\ task[2].pc = "running" /\ task[2].src = "P1" /\ task[2].attempt = 2
    /\ RunningOn("P1") = {2}

\* the step invokes the provider method for the call of task t
Invokes(t) == task'[t].pc = "running" /\ task'[t].invoked # task[t].invoked

\* C33: the step that cancels a call, be it waiting for limiter or semaphore,
\* in the provider method or in the wait between two attempts, ends the call
\* with the cancellation as its outcome, whatever attempts were left, and
\* leaves it holding nothing; the provider method is invoked only for a call
\* that is being made or is still in flight, one invocation per attempt.
C33_CancellationEndsRetryLoop ==
    [][ \A t \in Tasks :
            /\ Cancel(t) =>
                   /\ task'[t] = Idle("cancelled", task[t].src)
                   /\ t \notin reg'[task[t].src].holders
                   /\ t \notin reg'[task[t].src].active_tasks
                   /\ \A u \in Tasks \ {t} : task'[u] = task[u]
            /\ Invokes(t) =>
                   /\ task[t].pc \in {"idle", "probe", "backoff", "wait_limiter", "wait_sem"}
                   /\ task'[t].outcome = "none"
                   /\ task'[t].invoked = task[t].invoked + 1
                   /\ task'[t].invoked <= task'[t].attempt
      ]_vars

\* a call to P2 was cancelled, and nothing was recorded or is held for it,
\* while the other task's call to P1 waits between two attempts
C33_Witness ==
    /\ task[1] = Idle("cancelled", "P2")
    /\ reg["P2"].call_count = 0 /\ reg["P2"].active_tasks = {}
    /\ task[2].pc = "backoff" /\ task[2].src = "P1" /\ task[2].retries = 2
    /\ reg["P1"].active_tasks = {2}

----------------------------------------------------------------------------
(* Health checks *)

\* the source has never been checked, or its last check is older than 300 s
CheckIsDue(p) == last_check_time[p] = NoTime \/ now - last_check_time[p] > 300

\* the step ends the health check made for the call of task t with an answer
ProbeAnswers(t) ==
    /\ task[t].pc = "probe"
    /\ task'[t].pc # "probe"
    /\ task'[t].outcome # "cancelled"

\* C34: a call that selects a source starts with a health check of it exactly
\* when the source was never checked or its last check is more than 300 s
\* old, and otherwise starts its first attempt at once, leaving flag and
\* check time alone; during the check the provider method has not been
\* invoked; a check that answers true stores true and the time and lets the
\* first attempt start; one that answers false or raises stores false (and,
\* if it answered, the time), records one error on the registration and ends
\* the call as unavailable, the provider method never having been invoked.
C34_LazyHealthCheck ==
    [][ \A t \in Tasks :
            LET p == task'[t].src
                q == task[t].src
            IN  /\ (Calls(t) /\ p # NoSource) =>
                       IF CheckIsDue(p)
                       THEN task'[t].pc = "probe" /\ reg' = reg
                       ELSE /\ InAttempt(task'[t]) /\ task'[t].attempt = 1
                            /\ is_healthy' = is_healthy
                            /\ last_check_time' = last_check_time
                /\ task'[t].pc = "probe" =>
                       task'[t].invoked = 0 /\ task'[t].attempt = 0
                /\ ProbeAnswers(t) =>
                       IF is_healthy'[q]
                       THEN /\ last_check_time'[q] = now
                            /\ InAttempt(task'[t]) /\ task'[t].attempt = 1
                            /\ SameStats(reg'[q], reg[q])
                       ELSE /\ last_check_time'[q] \in {now, last_check_time[q]}
                            /\ task'[t] = Idle("unavailable", q)
                            /\ reg'[q].call_count = reg[q].call_count + 1
                            /\ reg'[q].error_count = reg[q].error_count + 1
                            /\ reg'[q].holders = reg[q].holders
                            /\ reg'[q].active_tasks = reg[q].active_tasks
      ]_vars

\* P1 was checked at time 0 for a call that succeeded; 301 s later a second
\* call selected it, checked it again, got the answer false and failed
C34_Witness ==
    /\ task[1] = Idle("success", "P1")
    /\ task[2] = Idle("unavailable", "P1")
    /\ now = 301
    /\ last_check_time["P1"] = 301
    /\ ~is_healthy["P1"]
    /\ reg["P1"].call_count = 2 /\ reg["P1"].error_count = 1

----------------------------------------------------------------------------
(* Registrations per provider *)

\* the number of registrations of instance inst in the implementations impls
RegistrationsOf(impls, inst) ==
    Cardinality({i \in DOMAIN impls : impls[i][1] = inst})

\* C35: when complete_registration() has just returned, every ServiceMethod
\* holds exactly one registration of each registered provider whose class
\* has an annotated method of that name, and none of any other provider,
\* however many times complete_registration() has been called
C35_OneRegistrationPerProvider ==
    mgr.op[1] = "complete_registration" =>
        \A g \in DOMAIN mgr.service_methods :
            \A i \in DOMAIN mgr.data_sources :
                LET src == mgr.data_sources[i]
                IN  RegistrationsOf(mgr.service_methods[g], src.inst) =
                        IF g \in class_methods(src.inst[1]) THEN 1 ELSE 0

----------------------------------------------------------------------------
(* The weighted selection *)

\* the healthy candidates and the numerators of their scores over the
\* common denominator, as choose_implementation computes them
Candidates == available(is_healthy)

CandidateScores == Scores(Candidates, reg)

TotalScore == SumTo(CandidateScores, Len(Candidates))

\* C36: when the scores of the healthy candidates sum to more than 0, every
\* candidate with a positive score can be picked and no candidate with score
\* 0 can
C36_PicksInProportionToScore ==
    TotalScore > 0 =>
        \A i \in DOMAIN Candidates :
            /\ CandidateScores[i] > 0 =>
                   Candidates[i] \in choose_implementation(is_healthy, reg)
            /\ CandidateScores[i] = 0 =>
                   Candidates[i] \notin choose_implementation(is_healthy, reg)

\* C37: when the scores of the healthy candidates sum to 0 or less, every
\* healthy candidate and nothing else can be picked; no implementation is
\* returned exactly when no source is healthy; and a call dispatched from
\* such a state goes to a healthy source
C37_NonPositiveTotalPicksAnyHealthy ==
    [][ /\ (Candidates # <<>> /\ TotalScore <= 0) =>
               /\ choose_implementation(is_healthy, reg) = RangeOf(Candidates)
               /\ \A t \in Tasks :
                      (task[t].pc = "idle" /\ InAttempt(task'[t])) =>
                          /\ is_healthy[task'[t].src]
                          /\ t \in reg'[task'[t].src].active_tasks
        /\ (NoSource \in choose_implementation(is_healthy, reg))
               = (\A p \in Sources : ~is_healthy[p])
        /\ (Candidates = <<>>) =>
               \A t \in Tasks :
                   (task[t].pc = "idle" /\ task'[t] # task[t]) =>
                       task'[t] = Idle("unavailable", NoSource)
      ]_vars

\* P1 has weight -1.0 and P2 weight 1.0, so the scores never sum to more than
\* 0; both are healthy, and one call runs on each of them
C37_Witness ==
    /\ reg["P1"].weight = -10 /\ reg["P2"].weight = 10
    /\ is_healthy["P1"] /\ is_healthy["P2"]
    /\ task[1].pc = "running" /\ task[1].src = "P2"
    /\ task[2].pc = "running" /\ task[2].src = "P1"
    /\ TotalScore <= 0

----------------------------------------------------------------------------
(* The ranges to fetch *)

\* the missing trading days of the call of record r, made when the daily
\* bars were rows
MissingOf(rows, r) ==
    LET cached_df == daily_data_to_dataframe(
                         get_daily_data(rows, r.code,
                                        adjusted_start_dt(r.start, listing[r.code]),
                                        r.end))
    IN  IF cached_df # <<>> THEN RangeOf(missing_days_of(cached_df)) ELSE {}

\* ranges are the minimal contiguous ranges of the set missing: ascending and
\* disjoint, made of missing dates only, every missing date in exactly one of
\* them, and dates one calendar day apart together
MinimalRanges(ranges, missing) ==
    /\ \A i \in DOMAIN ranges :
           /\ ranges[i][1] <= ranges[i][2]
           /\ \A d \in ranges[i][1]..ranges[i][2] : d \in missing
    /\ \A i, j \in DOMAIN ranges : i < j => ranges[i][2] < ranges[j][1]
    /\ \A d \in missing :
           Cardinality({i \in DOMAIN ranges :
                            ranges[i][1] <= d /\ d <= ranges[i][2]}) = 1
    /\ \A d \in missing :
           (d + 1) \in missing =>
               \E i \in DOMAIN ranges : ranges[i][1] <= d /\ d + 1 <= ranges[i][2]

\* C38: a call that finds cached bars with trading days missing between them
\* decides to fetch the minimal contiguous ranges of the missing days, and
\* when exactly one day d is missing it requests exactly the range (d, d)
\* from the router
C38_FetchesMinimalRanges ==
    [][LET r == last'
           missing == MissingOf(repo, r)
       IN  (r.read /\ missing # {}) =>
               /\ MinimalRanges(r.fetch_ranges, missing)
               /\ \A d \in missing :
                      missing = {d} => r.fetched = << <<d, d>> >>
      ]_vars

----------------------------------------------------------------------------
(* The provider adapters: fetcher/datasources/eastmoney.py *)

\* what the upstream SDK does in one call of the adapter: it returns bars, an
\* empty frame or a frame normalization cannot handle, or it raises
UpstreamAnswers == {"data", "empty", "bad_shape", "raises"}

\* EASTMONEY.fetch_stock_daily_data: how the method ends for every answer of
\* the upstream. The call of the SDK and the normalization are inside
\* try ... except Exception, whose handler returns an empty frame
fetch_stock_daily_data(answer) ==
    IF answer = "data" THEN "frame" ELSE "empty_frame"

\* the provider method of the call of task t, fetch_stock_daily_data, ends
\* after the upstream has answered: the router records a success when it
\* returns and goes on as for any exception when it raises
FetchDailyData(t, answer) ==
    /\ task[t].pc = "running"
    /\ IF fetch_stock_daily_data(answer) = "raises"
       THEN AttemptRaises(t)
       ELSE /\ reg' = [reg EXCEPT ![task[t].src] = record_success(leave(@, t), now)]
            /\ task' = [task EXCEPT ![t] = Idle("success", task[t].src)]
            /\ UNCHANGED <<now, ticks, is_healthy, last_check_time, ncalls,
                           dailyVars, concVars, extraVars>>

\* calls of fetch_stock_daily_data through the router, with and without a
\* timeout
InitAdapter == InitRetry

NextAdapter ==
    \/ \E t \in Tasks, retries \in 0..MaxRetries, timeout \in Timeouts :
           Call(t, retries, {}, timeout)
    \/ \E t \in Tasks : AcquireSemaphore(t)
    \/ \E t \in Tasks, answer \in UpstreamAnswers : FetchDailyData(t, answer)
    \/ \E t \in Tasks : AttemptTimesOut(t)
    \/ \E t \in Tasks : BackoffEnds(t)
    \/ Elapse

SpecAdapter == InitAdapter /\ [][NextAdapter]_vars

\* C39: when the upstream raises or answers with an unexpected shape, the
\* attempt ends as a failed one: the call goes to its next attempt, or it
\* fails, with one more error on the registration and the provider marked
\* unhealthy. When the upstream answers with an empty frame the call ends as
\* a success with no error recorded
C39_UpstreamFailureReachesRouter ==
    [][\A t \in Tasks :
           LET p == task[t].src
           IN  /\ \A answer \in {"bad_shape", "raises"} :
                      FetchDailyData(t, answer) =>
                          IF stop(task[t])
                          THEN /\ task'[t] = Idle("failed", p)
                               /\ reg'[p].error_count = reg[p].error_count + 1
                               /\ ~is_healthy'[p]
                          ELSE task'[t].pc = "backoff"
               /\ FetchDailyData(t, "empty") =>
                      /\ task'[t] = Idle("success", p)
                      /\ reg'[p].error_count = reg[p].error_count
                      /\ reg'[p].call_count = reg[p].call_count + 1
                      /\ is_healthy' = is_healthy
      ]_vars

----------------------------------------------------------------------------
(* One provider per call *)

\* the call of task t is in flight: made and not yet ended
BeingMade(tk) == tk.pc # "idle"

\* C40: the source of a call is the one selected when the call was made:
\* every attempt of the call starts on it and invokes its method, whatever
\* the other source is, and the call ends, failed or not, on that source
\* with the registration of the other source left as it was
C40_OneProviderPerCall ==
    [][ \A t \in Tasks :
            /\ BeingMade(task[t]) => task'[t].src = task[t].src
            /\ (BeingMade(task[t]) /\ StartsAttempt(t)) =>
                   /\ task'[t].attempt = task[t].attempt + 1
                   /\ t \in reg'[task[t].src].active_tasks
                   /\ \A q \in Sources \ {task[t].src} : reg'[q] = reg[q]
            /\ Invokes(t) =>
                   /\ t \in reg'[task'[t].src].active_tasks
                   /\ \A q \in Sources \ {task'[t].src} :
                          t \notin reg'[q].active_tasks /\ t \notin reg'[q].holders
            /\ (InAttempt(task[t]) /\ task'[t].pc = "idle"
                    /\ task'[t].outcome = "failed") =>
                   \A q \in Sources \ {task[t].src} :
                       reg'[q] = reg[q] /\ is_healthy'[q] = is_healthy[q]
      ]_vars

\* the call of task 1 is in its second attempt on P2 while P1 is healthy and
\* has never been called
C40_Witness ==
    /\ task[1].pc = "running" /\ task[1].src = "P2" /\ task[1].attempt = 2
    /\ task[2].pc = "idle" /\ task[2].outcome = "none"
    /\ is_healthy["P1"]
    /\ reg["P1"].call_count = 0 /\ reg["P1"].active_tasks = {}
    /\ "P1" \in choose_implementation(is_healthy, reg)

============================================================================
